---- MODULE Spec2Model ----
(***************************************************************************)
(* Model of the resume parsing core (src/src/parser.py).                   *)
(*                                                                         *)
(* A text is a sequence of characters; a character is a one-character      *)
(* string, except for the non-ASCII characters the parser names, which are *)
(* written by name (NBSP, EMDASH, ENDASH, BULLET).  None stands for        *)
(* Python's None.                                                          *)
(***************************************************************************)
EXTENDS Integers, Sequences, FiniteSets, TLC

\* ------------------------------------------------------------------------
\* Characters
\* ------------------------------------------------------------------------
NBSP   == "NBSP"
EMDASH == "EMDASH"
ENDASH == "ENDASH"
BULLET == "BULLET"
NL     == "\n"
TAB    == "\t"
CR     == "\r"
FF     == "\f"

None == <<"None">>

LowerSeq == <<"a","b","c","d","e","f","g","h","i","j","k","l","m",
              "n","o","p","q","r","s","t","u","v","w","x","y","z">>
UpperSeq == <<"A","B","C","D","E","F","G","H","I","J","K","L","M",
              "N","O","P","Q","R","S","T","U","V","W","X","Y","Z">>

Range(f) == {f[i] : i \in DOMAIN f}

LowerCh == Range(LowerSeq)
UpperCh == Range(UpperSeq)
AlphaCh == LowerCh \cup UpperCh
DigitCh == {"0","1","2","3","4","5","6","7","8","9"}
\* \w of the re module
WordCh  == AlphaCh \cup DigitCh \cup {"_"}
\* str.isspace() and \s of the re module
SpaceCh == {" ", TAB, NL, CR, FF, NBSP}
\* line boundaries of str.splitlines()
LineSep == {NL, CR, FF}

ToUpperMap == [c \in LowerCh |-> UpperSeq[CHOOSE i \in 1..26 : LowerSeq[i] = c]]
ToLowerMap == [c \in UpperCh |-> LowerSeq[CHOOSE i \in 1..26 : UpperSeq[i] = c]]

UpperOf(c) == IF c \in LowerCh THEN ToUpperMap[c] ELSE c
LowerOf(c) == IF c \in UpperCh THEN ToLowerMap[c] ELSE c

\* ------------------------------------------------------------------------
\* str methods
\* ------------------------------------------------------------------------
\* s[a:b] with 1-based inclusive bounds
Sub(s, a, b) == IF a > b THEN <<>> ELSE SubSeq(s, a, b)

StrUpper(s) == [i \in 1..Len(s) |-> UpperOf(s[i])]
StrLower(s) == [i \in 1..Len(s) |-> LowerOf(s[i])]

\* x in s, for a single character x
HasChar(s, c) == \E i \in 1..Len(s) : s[i] = c

\* index of the first / last character of s outside the set cs (0 if none)
FirstOutside(s, cs) ==
    IF \E i \in 1..Len(s) : s[i] \notin cs
    THEN CHOOSE i \in 1..Len(s) : s[i] \notin cs /\ \A j \in 1..(i-1) : s[j] \in cs
    ELSE 0
LastOutside(s, cs) ==
    IF \E i \in 1..Len(s) : s[i] \notin cs
    THEN CHOOSE i \in 1..Len(s) : s[i] \notin cs /\ \A j \in (i+1)..Len(s) : s[j] \in cs
    ELSE 0

\* s.strip(cs)
StripChars(s, cs) ==
    IF FirstOutside(s, cs) = 0 THEN <<>>
    ELSE Sub(s, FirstOutside(s, cs), LastOutside(s, cs))

\* s.strip()
Strip(s) == StripChars(s, SpaceCh)

\* sep.join(parts)
RECURSIVE Join(_, _)
Join(parts, sep) ==
    IF parts = <<>> THEN <<>>
    ELSE IF Len(parts) = 1 THEN parts[1]
    ELSE parts[1] \o sep \o Join(Tail(parts), sep)

\* the sequence lo, lo+1, ..., hi
Indices(lo, hi) == [k \in 1..(hi - lo + 1) |-> lo + k - 1]

\* the pieces of s between the cuts; cut k removes s[at[k] .. at[k]+len[k]-1]
PiecesBetween(s, at, len) ==
    [k \in 1..(Len(at) + 1) |->
        Sub(s, IF k = 1 THEN 1 ELSE at[k-1] + len[k-1],
               IF k > Len(at) THEN Len(s) ELSE at[k] - 1)]

\* s.splitlines(): "\r\n" is one boundary, a final boundary opens no line
SplitLines(s) ==
    LET at  == SelectSeq(Indices(1, Len(s)),
                   LAMBDA i : s[i] \in LineSep /\ ~(s[i] = NL /\ i > 1 /\ s[i-1] = CR))
        len == [k \in 1..Len(at) |->
                   IF s[at[k]] = CR /\ at[k] < Len(s) /\ s[at[k] + 1] = NL THEN 2 ELSE 1]
        pieces == PiecesBetween(s, at, len)
    IN  IF pieces[Len(pieces)] = <<>> THEN Sub(pieces, 1, Len(pieces) - 1) ELSE pieces

\* s.split(c) for a single character c
SplitChar(s, c) ==
    LET at == SelectSeq(Indices(1, Len(s)), LAMBDA i : s[i] = c)
    IN  PiecesBetween(s, at, [k \in 1..Len(at) |-> 1])

\* s.split(c, 1)
SplitCharOnce(s, c) ==
    IF HasChar(s, c)
    THEN LET i == CHOOSE k \in 1..Len(s) : s[k] = c /\ \A j \in 1..(k-1) : s[j] # c
         IN  <<Sub(s, 1, i - 1), Sub(s, i + 1, Len(s))>>
    ELSE <<s>>

\* does old occur in s at index i
OccursAt(s, old, i) ==
    /\ i + Len(old) - 1 <= Len(s)
    /\ \A k \in 1..Len(old) : s[i + k - 1] = old[k]

\* s.replace(old, ""), for non-empty old: occurrences are taken left to right
RECURSIVE RemoveAllFrom(_, _, _)
RemoveAllFrom(s, old, from) ==
    LET occ == SelectSeq(Indices(from, Len(s)), LAMBDA i : OccursAt(s, old, i))
    IN  IF occ = <<>> THEN Sub(s, from, Len(s))
        ELSE Sub(s, from, occ[1] - 1) \o RemoveAllFrom(s, old, occ[1] + Len(old))

RemoveAll(s, old) == IF old = <<>> THEN s ELSE RemoveAllFrom(s, old, 1)

\* s.replace(a, b) for single characters
ReplaceChar(s, a, b) == [i \in 1..Len(s) |-> IF s[i] = a THEN b ELSE s[i]]

\* s.title(): a letter is upper-cased after a non-letter, lower-cased after a letter
StrTitle(s) ==
    [i \in 1..Len(s) |->
        IF i > 1 /\ s[i-1] \in AlphaCh THEN LowerOf(s[i]) ELSE UpperOf(s[i])]

\* x or None
OrNone(s) == IF s = <<>> THEN None ELSE s

\* ------------------------------------------------------------------------
\* The re module: a backtracking matcher over pattern trees.
\*
\* A pattern is a tree of nodes; M tries the alternatives in the order the
\* re module tries them (greedy repeats take one more first, lazy repeats
\* stop first, alternations go left to right), so the first success is the
\* match re returns.  A match state is the index of the next character and
\* the spans of the (at most two) groups.
\* ------------------------------------------------------------------------
Inf == -1

Cls(cs)  == [t |-> "cls", s |-> cs, neg |-> FALSE]     \* [...]
NCls(cs) == [t |-> "cls", s |-> cs, neg |-> TRUE]      \* [^...]
Ch(c)    == Cls({c})
Cat(ns)  == [t |-> "cat", r |-> ns]
Alt(ns)  == [t |-> "alt", r |-> ns]
Rep(n, lo, hi)  == [t |-> "rep", r |-> n, lo |-> lo, hi |-> hi, g |-> TRUE, c |-> 0]
Lazy(n, lo, hi) == [t |-> "rep", r |-> n, lo |-> lo, hi |-> hi, g |-> FALSE, c |-> 0]
Opt(n)   == Rep(n, 0, 1)                       \* x?
Star(n)  == Rep(n, 0, Inf)                     \* x*
Plus(n)  == Rep(n, 1, Inf)                     \* x+
Grp(k, n) == [t |-> "grp", n |-> k, r |-> n]   \* (...) as group k
Bol == [t |-> "bol"]                           \* ^ without re.M
Eol == [t |-> "eol"]                           \* $ without re.M
Wb  == [t |-> "wb"]                            \* \b
\* a literal string, and the same under re.I
Lit(s)  == [t |-> "lit", s |-> s, i |-> FALSE]
LitI(s) == [t |-> "lit", s |-> s, i |-> TRUE]

NoGroups == <<<<0, 0>>, <<0, 0>>>>
Fail == [p |-> 0, g |-> NoGroups]
St(i) == [p |-> i, g |-> NoGroups]

IsWordAt(s, i) == i >= 1 /\ i <= Len(s) /\ s[i] \in WordCh

InCls(n, c) == (c \in n.s) # n.neg

LitAt(n, s, p) ==
    /\ p + Len(n.s) - 1 <= Len(s)
    /\ \A k \in 1..Len(n.s) :
          IF n.i THEN LowerOf(s[p + k - 1]) = LowerOf(n.s[k]) ELSE s[p + k - 1] = n.s[k]

\* first index in lo..hi whose character is outside the class n, else none
RECURSIVE FirstMiss(_, _, _, _, _)
FirstMiss(n, s, lo, hi, none) ==
    IF lo > hi THEN none
    ELSE IF lo = hi THEN IF InCls(n, s[lo]) THEN none ELSE lo
    ELSE LET mid  == (lo + hi) \div 2
             left == FirstMiss(n, s, lo, mid, none)
         IN  IF left # none THEN left ELSE FirstMiss(n, s, mid + 1, hi, none)

\* number of consecutive characters of the class n from index p on
RunLen(n, s, p) == FirstMiss(n, s, p, Len(s), Len(s) + 1) - p

RECURSIVE M(_, _, _)
RECURSIVE TryCounts(_, _, _, _, _, _)

\* the first success of the rest of the pattern after klo..khi characters of a
\* class repeat: most first when greedy, fewest first when lazy
TryCounts(rest, s, st, klo, khi, greedy) ==
    IF klo > khi THEN Fail
    ELSE IF klo = khi THEN M(rest, s, [st EXCEPT !.p = @ + klo])
    ELSE LET mid  == (klo + khi) \div 2
             low  == TryCounts(rest, s, st, klo, mid, greedy)
             high == TryCounts(rest, s, st, mid + 1, khi, greedy)
         IN  IF greedy THEN IF high # Fail THEN high ELSE low
             ELSE IF low # Fail THEN low ELSE high

M(stack, s, st) ==
    IF stack = <<>> THEN st
    ELSE
    LET n    == Head(stack)
        rest == Tail(stack)
    IN  CASE n.t = "cls" ->
               IF st.p <= Len(s) /\ InCls(n, s[st.p])
               THEN M(rest, s, [st EXCEPT !.p = @ + 1]) ELSE Fail
          [] n.t = "lit" ->
               IF LitAt(n, s, st.p)
               THEN M(rest, s, [st EXCEPT !.p = @ + Len(n.s)]) ELSE Fail
          [] n.t = "cat" -> M(n.r \o rest, s, st)
          [] n.t = "alt" ->
               IF n.r = <<>> THEN Fail
               ELSE LET first == M(<<Head(n.r)>> \o rest, s, st)
                    IN  IF first # Fail THEN first
                        ELSE M(<<[n EXCEPT !.r = Tail(@)]>> \o rest, s, st)
          [] n.t = "rep" /\ n.r.t = "cls" ->
               \* a repeated class: the run of class characters bounds the count
               LET run == RunLen(n.r, s, st.p)
                   khi == IF n.hi = Inf \/ run < n.hi THEN run ELSE n.hi
               IN  TryCounts(rest, s, st, n.lo, khi, n.g)
          [] n.t = "rep" /\ n.r.t # "cls" ->
               LET more == IF n.hi = Inf \/ n.c < n.hi
                           THEN M(<<n.r, [n EXCEPT !.c = @ + 1]>> \o rest, s, st)
                           ELSE Fail
                   stop == IF n.c >= n.lo THEN M(rest, s, st) ELSE Fail
               IN  IF n.g
                   THEN IF more # Fail THEN more ELSE stop
                   ELSE IF stop # Fail THEN stop ELSE more
          [] n.t = "grp" ->
               M(<<n.r, [t |-> "gclose", n |-> n.n, a |-> st.p]>> \o rest, s, st)
          [] n.t = "gclose" ->
               M(rest, s, [st EXCEPT !.g[n.n] = <<n.a, st.p>>])
          [] n.t = "bol" -> IF st.p = 1 THEN M(rest, s, st) ELSE Fail
          [] n.t = "eol" ->
               IF st.p = Len(s) + 1 \/ (st.p = Len(s) /\ s[st.p] = NL)
               THEN M(rest, s, st) ELSE Fail
          [] n.t = "wb" ->
               IF IsWordAt(s, st.p - 1) # IsWordAt(s, st.p)
               THEN M(rest, s, st) ELSE Fail

\* A match object: a = index of the first character, b = index after the
\* last one, g = group spans; NoMatch when the pattern does not match.
NoMatch == [a |-> 0, b |-> 0, g |-> NoGroups]

MatchOf(i, r) == IF r = Fail THEN NoMatch ELSE [a |-> i, b |-> r.p, g |-> r.g]

MatchAt(re, s, i) == MatchOf(i, M(<<re>>, s, St(i)))

\* re.match(s)
ReMatch(re, s) == MatchAt(re, s, 1)

\* the leftmost match that starts in lo..hi
RECURSIVE SearchIn(_, _, _, _)
LeftmostOf(re, s, mid, hi, left) ==
    IF left # NoMatch THEN left ELSE SearchIn(re, s, mid + 1, hi)

SearchIn(re, s, lo, hi) ==
    IF lo > hi THEN NoMatch
    ELSE IF lo = hi THEN MatchAt(re, s, lo)
    ELSE LeftmostOf(re, s, (lo + hi) \div 2, hi, SearchIn(re, s, lo, (lo + hi) \div 2))

\* re.search(s), scanning from index i
SearchFrom(re, s, i) == SearchIn(re, s, i, Len(s) + 1)

ReSearch(re, s) == SearchFrom(re, s, 1)

\* m.group(0), m.group(k), m.start()
Group0(s, m) == Sub(s, m.a, m.b - 1)
GroupK(s, m, k) == Sub(s, m.g[k][1], m.g[k][2] - 1)

\* re.sub(re, repl, s), for patterns that match no empty string
RECURSIVE SubFrom(_, _, _, _)
SubAt(re, repl, s, i, m) ==
    IF m = NoMatch \/ m.b = m.a THEN Sub(s, i, Len(s))
    ELSE Sub(s, i, m.a - 1) \o repl \o SubFrom(re, repl, s, m.b)

SubFrom(re, repl, s, i) == SubAt(re, repl, s, i, SearchFrom(re, s, i))

ReSub(re, repl, s) == SubFrom(re, repl, s, 1)

\* re.split(re, s), for patterns without groups that match no empty string
RECURSIVE SplitFrom(_, _, _)
SplitAt(re, s, i, m) ==
    IF m = NoMatch \/ m.b = m.a THEN <<Sub(s, i, Len(s))>>
    ELSE <<Sub(s, i, m.a - 1)>> \o SplitFrom(re, s, m.b)

SplitFrom(re, s, i) == SplitAt(re, s, i, SearchFrom(re, s, i))

ReSplit(re, s) == SplitFrom(re, s, 1)

\* ------------------------------------------------------------------------
\* Module-level tables of parser.py
\* ------------------------------------------------------------------------
CONTACT_INFORMATION == <<"C","O","N","T","A","C","T"," ","I","N","F","O","R","M","A","T","I","O","N">>
CONTACT    == <<"C","O","N","T","A","C","T">>
INFO       == <<"I","N","F","O">>
SUMMARY    == <<"S","U","M","M","A","R","Y">>
OBJECTIVE  == <<"O","B","J","E","C","T","I","V","E">>
EXPERIENCE == <<"E","X","P","E","R","I","E","N","C","E">>
WORK_EXPERIENCE == <<"W","O","R","K"," ","E","X","P","E","R","I","E","N","C","E">>
PROFESSIONAL_EXPERIENCE == <<"P","R","O","F","E","S","S","I","O","N","A","L"," ","E","X","P","E","R","I","E","N","C","E">>
EDUCATION  == <<"E","D","U","C","A","T","I","O","N">>
PROJECTS   == <<"P","R","O","J","E","C","T","S">>
TECHNICAL_SKILLS == <<"T","E","C","H","N","I","C","A","L"," ","S","K","I","L","L","S">>
SKILLS     == <<"S","K","I","L","L","S">>
CERTIFICATIONS_LICENSES == <<"C","E","R","T","I","F","I","C","A","T","I","O","N","S"," ","&"," ","L","I","C","E","N","S","E","S">>
CERTIFICATIONS == <<"C","E","R","T","I","F","I","C","A","T","I","O","N","S">>
LICENSES   == <<"L","I","C","E","N","S","E","S">>
LANGUAGES  == <<"L","A","N","G","U","A","G","E","S">>
LANGUAGE   == <<"L","A","N","G","U","A","G","E">>
VOLUNTEER_EXPERIENCE == <<"V","O","L","U","N","T","E","E","R"," ","E","X","P","E","R","I","E","N","C","E">>
VOLUNTEER  == <<"V","O","L","U","N","T","E","E","R">>

\* canonical name and its aliases, in the order of the dict
HEADER_ALIASES == <<
    [canon |-> CONTACT_INFORMATION, aliases |-> {CONTACT_INFORMATION, CONTACT, INFO}],
    [canon |-> SUMMARY, aliases |-> {SUMMARY, OBJECTIVE}],
    [canon |-> EXPERIENCE, aliases |-> {EXPERIENCE, WORK_EXPERIENCE, PROFESSIONAL_EXPERIENCE}],
    [canon |-> EDUCATION, aliases |-> {EDUCATION}],
    [canon |-> PROJECTS, aliases |-> {PROJECTS}],
    [canon |-> TECHNICAL_SKILLS, aliases |-> {TECHNICAL_SKILLS, SKILLS}],
    [canon |-> CERTIFICATIONS_LICENSES, aliases |-> {CERTIFICATIONS_LICENSES, CERTIFICATIONS, LICENSES}],
    [canon |-> LANGUAGES, aliases |-> {LANGUAGES, LANGUAGE}],
    [canon |-> VOLUNTEER_EXPERIENCE, aliases |-> {VOLUNTEER_EXPERIENCE, VOLUNTEER}] >>

SpaceCls == Cls(SpaceCh)       \* \s
NonSpace == NCls(SpaceCh)      \* \S
DigitCls == Cls(DigitCh)       \* \d
AlphaCls == Cls(AlphaCh)       \* [A-Za-z]

\* ^(?P<hdr>[A-Za-z][A-Za-z\s&]+?)(:?\s*)$
HEADER_PATTERN ==
    Cat(<< Bol,
           Grp(1, Cat(<<AlphaCls, Lazy(Cls(AlphaCh \cup SpaceCh \cup {"&"}), 1, Inf)>>)),
           Grp(2, Cat(<<Opt(Ch(":")), Star(SpaceCls)>>)),
           Eol >>)

\* ------------------------------------------------------------------------
\* _normalize_text, _normalize_text_preserve_tabs
\* ------------------------------------------------------------------------
StripEach(lines) == [i \in 1..Len(lines) |-> Strip(lines[i])]

\* re.sub(r"\n{3,}", "\n\n", t)
CollapseBlankRuns(t) == ReSub(Rep(Ch(NL), 3, Inf), <<NL, NL>>, t)

\* "\n".join(l.strip() for l in t.splitlines())
TrimLines(t) == Join(StripEach(SplitLines(t)), <<NL>>)

NormalizeText(text) ==
    LET t1 == ReplaceChar(text, TAB, " ")
        t2 == ReSub(Ch(NBSP), <<" ">>, t1)
        t3 == ReSub(Plus(Cls({" ", TAB})), <<" ">>, t2)
        t4 == TrimLines(t3)
        t5 == CollapseBlankRuns(t4)
    IN  Strip(t5)

\* NormalizeTextPreserveTabs that collapses blank-line runs before trimming the lines
NormalizeTextPreserveTabs_CollapseFirst(text) ==
    LET t2 == ReSub(Ch(NBSP), <<" ">>, text)
        t3 == ReSub(Plus(Ch(" ")), <<" ">>, t2)
        t4 == CollapseBlankRuns(t3)
        t5 == TrimLines(t4)
    IN  Strip(t5)

NormalizeTextPreserveTabs(text) ==
    LET t2 == ReSub(Ch(NBSP), <<" ">>, text)
        t3 == ReSub(Plus(Ch(" ")), <<" ">>, t2)
        t4 == TrimLines(t3)
        t5 == CollapseBlankRuns(t4)
    IN  Strip(t5)

\* ------------------------------------------------------------------------
\* _canonical_header, _split_sections
\* ------------------------------------------------------------------------
\* CleanHeader without the upper-casing
CleanHeader_NoUpper(s) ==
    ReSub(Cat(<<Ch(":"), Star(SpaceCls), Eol>>), <<>>, Strip(s))

\* re.sub(r":\s*$", "", s.upper().strip())
CleanHeader(s) ==
    ReSub(Cat(<<Ch(":"), Star(SpaceCls), Eol>>), <<>>, Strip(StrUpper(s)))

\* AliasHit that accepts a line that only starts with an alias
AliasHit_Prefix(entry, sClean) ==
    \E a \in entry.aliases : Len(a) <= Len(sClean) /\ Sub(sClean, 1, Len(a)) = a

AliasHit(entry, sClean) == sClean = entry.canon \/ sClean \in entry.aliases

\* the canonical name of s, or None
CanonicalHeader(s) ==
    LET sClean == CleanHeader(s)
        hits   == {k \in DOMAIN HEADER_ALIASES : AliasHit(HEADER_ALIASES[k], sClean)}
    IN  IF hits = {} THEN None
        ELSE HEADER_ALIASES[CHOOSE k \in hits : \A j \in hits : k <= j].canon

\* the canonical name a line introduces, or None: the two tests of the scan loop
HeaderOfLine(line) ==
    LET m == ReMatch(HEADER_PATTERN, Strip(line))
    IN  IF m = NoMatch THEN None ELSE CanonicalHeader(GroupK(Strip(line), m, 1))

\* indices (1-based) of the lines that are section boundaries, in order
HeaderIndices(lines) ==
    SelectSeq([i \in 1..Len(lines) |-> i], LAMBDA i : HeaderOfLine(lines[i]) # None)

\* A dict is a sequence of <<key, value>> pairs in insertion order.
DictHas(d, k) == \E i \in 1..Len(d) : d[i][1] = k
DictGet(d, k) == d[CHOOSE i \in 1..Len(d) : d[i][1] = k][2]
\* DictSet that keeps the value a key already has
DictSet_KeepFirst(d, k, v) == IF DictHas(d, k) THEN d ELSE Append(d, <<k, v>>)
DictSet(d, k, v) ==
    IF DictHas(d, k)
    THEN [i \in 1..Len(d) |-> IF d[i][1] = k THEN <<k, v>> ELSE d[i]]
    ELSE Append(d, <<k, v>>)
DictKeys(d) == [i \in 1..Len(d) |-> d[i][1]]

\* SectionBody that runs through the next header line
SectionBody_ThroughNextHeader(lines, indices, j) ==
    LET start == indices[j]
        end   == IF j + 1 <= Len(indices) THEN indices[j + 1] ELSE Len(lines)
    IN  Strip(Join(Sub(lines, start + 1, end), <<NL>>))

\* body of the j-th boundary: "\n".join(lines[start + 1:end]).strip()
SectionBody(lines, indices, j) ==
    LET start == indices[j]
        end   == IF j + 1 <= Len(indices) THEN indices[j + 1] ELSE Len(lines) + 1
    IN  Strip(Join(Sub(lines, start + 1, end - 1), <<NL>>))

RECURSIVE FillSections(_, _, _, _)
FillSections(lines, indices, j, sections) ==
    IF j > Len(indices) THEN sections
    ELSE LET body == SectionBody(lines, indices, j)
             name == HeaderOfLine(lines[indices[j]])
         IN  FillSections(lines, indices, j + 1,
                 IF body # <<>> THEN DictSet(sections, name, body) ELSE sections)

SplitSections(text) ==
    LET lines == SplitLines(text)
    IN  FillSections(lines, HeaderIndices(lines), 1, <<>>)

\* ------------------------------------------------------------------------
\* _parse_contact_block
\* ------------------------------------------------------------------------
\* [A-Za-z0-9._%+-]+@[A-Za-z0-9.-]+\.[A-Za-z]{2,}
EmailRe ==
    Cat(<< Plus(Cls(AlphaCh \cup DigitCh \cup {".", "_", "%", "+", "-"})),
           Ch("@"),
           Plus(Cls(AlphaCh \cup DigitCh \cup {".", "-"})),
           Ch("."),
           Rep(AlphaCls, 2, Inf) >>)

\* (?:\+1\s*)?\(?\d{3}\)?[\s\.\-]?\d{3}[\s\.\-]?\d{4}
PhoneSep == Cls(SpaceCh \cup {".", "-"})
PhoneRe ==
    Cat(<< Opt(Cat(<<Ch("+"), Ch("1"), Star(SpaceCls)>>)),
           Opt(Ch("(")), Rep(DigitCls, 3, 3), Opt(Ch(")")),
           Opt(PhoneSep), Rep(DigitCls, 3, 3),
           Opt(PhoneSep), Rep(DigitCls, 4, 4) >>)

\* [A-Za-z][A-Za-z\.\s]+,\s*[A-Za-z]{2}\b
LocationRe ==
    Cat(<< AlphaCls, Plus(Cls(AlphaCh \cup {"."} \cup SpaceCh)),
           Ch(","), Star(SpaceCls), Rep(AlphaCls, 2, 2), Wb >>)

\* (https?://\S+|www\.\S+|\S+\.com\b)
WebsiteRe ==
    Grp(1, Alt(<<
        Cat(<<Lit(<<"h","t","t","p">>), Opt(Ch("s")), Lit(<<":","/","/">>), Plus(NonSpace)>>),
        Cat(<<Lit(<<"w","w","w",".">>), Plus(NonSpace)>>),
        Cat(<<Plus(NonSpace), Lit(<<".","c","o","m">>), Wb>>) >>))

\* (?:https?://)?(?:www\.)?  under re.I
UrlPrefixI ==
    <<Opt(Cat(<<LitI(<<"h","t","t","p">>), Opt(Cls({"s", "S"})), Lit(<<":","/","/">>)>>)),
      Opt(LitI(<<"w","w","w",".">>))>>

\* (?:https?://)?(?:www\.)?linkedin\.com/\S+  with re.I
LinkedinRe ==
    Cat(UrlPrefixI \o <<LitI(<<"l","i","n","k","e","d","i","n",".","c","o","m","/">>), Plus(NonSpace)>>)

\* (?:https?://)?(?:www\.)?github\.com/\S+  with re.I
GithubRe ==
    Cat(UrlPrefixI \o <<LitI(<<"g","i","t","h","u","b",".","c","o","m","/">>), Plus(NonSpace)>>)

\* m.group(0) if m else None
Group0OrNone(re, s) ==
    LET m == ReSearch(re, s) IN IF m = NoMatch THEN None ELSE Group0(s, m)

\* the text the contact fields are searched in: full_text[:m.start()] if m else full_text
ContactTop(full_text) ==
    LET m == ReSearch(HEADER_PATTERN, full_text)
    IN  IF m # NoMatch THEN Sub(full_text, 1, m.a - 1) ELSE full_text

\* first match of the location pattern in lines[1:], or None
RECURSIVE FirstLocation(_, _)
FirstLocation(lines, i) ==
    IF i > Len(lines) THEN None
    ELSE LET m == ReSearch(LocationRe, lines[i])
         IN  IF m # NoMatch THEN Group0(lines[i], m) ELSE FirstLocation(lines, i + 1)

EmptyContact ==
    [name |-> None, email |-> None, phone |-> None, location |-> None,
     website |-> None, linkedin |-> None, github |-> None,
     citizenship |-> None, clearance |-> None]

ContactOfTop(top) ==
    LET lines == SplitLines(top)
        name  == IF lines # <<>> THEN Strip(lines[1]) ELSE None
        contact_text == Join(lines, <<NL>>)
    IN  [name     |-> IF name = None THEN None ELSE OrNone(name),
         email    |-> Group0OrNone(EmailRe, contact_text),
         phone    |-> Group0OrNone(PhoneRe, contact_text),
         location |-> FirstLocation(lines, 2),
         website  |-> Group0OrNone(WebsiteRe, contact_text),
         linkedin |-> Group0OrNone(LinkedinRe, contact_text),
         github   |-> Group0OrNone(GithubRe, contact_text),
         citizenship |-> None,
         clearance   |-> None]

ParseContactBlock(full_text) == ContactOfTop(ContactTop(full_text))

\* ------------------------------------------------------------------------
\* Shared primitives
\* ------------------------------------------------------------------------
\* result of an index read seq[k] (k counted from 0): raised stands for IndexError
PyIndex(seq, k) ==
    IF k + 1 \in 1..Len(seq) THEN [raised |-> FALSE, v |-> seq[k + 1]]
    ELSE [raised |-> TRUE, v |-> <<>>]

\* [l for l in c.splitlines() if l.strip()]
NonBlankLines(c) == SelectSeq(SplitLines(c), LAMBDA l : Strip(l) # <<>>)

\* re.split(r"\n\s*\n", block), each chunk stripped, empty chunks dropped
BlankLineRe == Cat(<<Ch(NL), Star(SpaceCls), Ch(NL)>>)
SplitBlocksByBlanklines(block) ==
    SelectSeq(StripEach(ReSplit(BlankLineRe, block)), LAMBDA c : c # <<>>)

\* ^\s*(?:[-•*]|\d+\.)\s+
BulletMarkRe ==
    Cat(<< Bol, Star(SpaceCls),
           Alt(<<Cls({"-", BULLET, "*"}), Cat(<<Plus(DigitCls), Ch(".")>>)>>),
           Plus(SpaceCls) >>)

Bullets(text) ==
    LET lines == SelectSeq(StripEach(SplitLines(text)), LAMBDA l : l # <<>>)
    IN  [i \in 1..Len(lines) |-> ReSub(BulletMarkRe, <<>>, lines[i])]

\* (?:Jan|Feb|Mar|Apr|May|Jun|Jul|Aug|Sep|Oct|Nov|Dec)[a-z]*\s+\d{4}  under (?i)
MonthYearRe ==
    Cat(<< Alt(<<LitI(<<"J","a","n">>), LitI(<<"F","e","b">>), LitI(<<"M","a","r">>),
                 LitI(<<"A","p","r">>), LitI(<<"M","a","y">>), LitI(<<"J","u","n">>),
                 LitI(<<"J","u","l">>), LitI(<<"A","u","g">>), LitI(<<"S","e","p">>),
                 LitI(<<"O","c","t">>), LitI(<<"N","o","v">>), LitI(<<"D","e","c">>)>>),
           Star(AlphaCls), Plus(SpaceCls), Rep(DigitCls, 4, 4) >>)

PRESENT == <<"P","r","e","s","e","n","t">>

\* (?i)(MonthYear)\s*[-–—]\s*(Present|MonthYear)
DateRangeRe ==
    Cat(<< Grp(1, MonthYearRe), Star(SpaceCls), Cls({"-", ENDASH, EMDASH}), Star(SpaceCls),
           Grp(2, Alt(<<LitI(PRESENT), MonthYearRe>>)) >>)

\* (?i)(MonthYear)
SingleDateRe == Grp(1, MonthYearRe)

\* _extract_dates_from_text: <<start_date, end_date>>
DatesOf(text, m, single) ==
    IF m # NoMatch
    THEN << Strip(GroupK(text, m, 1)),
            IF GroupK(text, m, 2) = PRESENT THEN PRESENT ELSE Strip(GroupK(text, m, 2)) >>
    ELSE IF single # NoMatch THEN <<Strip(GroupK(text, single, 1)), None>>
    ELSE <<None, None>>

ExtractDates(text) == DatesOf(text, ReSearch(DateRangeRe, text), ReSearch(SingleDateRe, text))

\* _extract_location_from_text
ExtractLocation(text) == Group0OrNone(LocationRe, text)

\* x is falsy: None or the empty string
Falsy(x) == x = None \/ x = <<>>

\* f"{start_date} - {end_date}"
DashJoin(a, b) == a \o <<" ", "-", " ">> \o b

\* f"{start_date} - {end_date}" if end_date else start_date
DatesText(d) == IF ~Falsy(d[2]) THEN DashJoin(d[1], d[2]) ELSE d[1]

\* re.split(r'\s{2,}|\t', line.strip())
WideGapRe == Alt(<<Rep(SpaceCls, 2, Inf), Ch(TAB)>>)
WideGapSplit(line) == ReSplit(WideGapRe, Strip(line))

\* re.split(r'\s+—\s+', line.strip())
EmDashSepRe == Cat(<<Plus(SpaceCls), Ch(EMDASH), Plus(SpaceCls)>>)
EmDashSplit(line) == ReSplit(EmDashSepRe, Strip(line))

\* .strip(" -–—•")
SepChars == {" ", "-", ENDASH, EMDASH, BULLET}

\* line.replace(location, "").strip(" -–—•").strip()
WithoutLocation(line, location) == Strip(StripChars(RemoveAll(line, location), SepChars))

\* name and location of a first line that is not in the em-dash form:
\* the wide-gap split if it yields two parts, else the inline location
EntityAndLocationOf(line, parts, location) ==
    IF Len(parts) >= 2
    THEN [raised |-> PyIndex(parts, 0).raised \/ PyIndex(parts, 1).raised,
          name |-> Strip(PyIndex(parts, 0).v), location |-> Strip(PyIndex(parts, 1).v)]
    ELSE [raised |-> FALSE,
          name |-> IF ~Falsy(location) THEN WithoutLocation(line, location) ELSE line,
          location |-> location]

EntityAndLocation(line) == EntityAndLocationOf(line, WideGapSplit(line), ExtractLocation(line))

\* ------------------------------------------------------------------------
\* _parse_experience
\* ------------------------------------------------------------------------
\* A chunk yields a record: skip (the chunk is passed over), raised (an index
\* read of the chunk's code is out of range) and the item.
NoItem == [skip |-> TRUE, raised |-> FALSE, item |-> None]
Item(raised, item) == [skip |-> FALSE, raised |-> raised, item |-> item]

\* "\n".join(lines[k:]) if len(lines) > k else "", k counted from 0
DescFrom(lines, k) == IF Len(lines) > k THEN Join(Sub(lines, k + 1, Len(lines)), <<NL>>) ELSE <<>>

\* the date range removed from a title or tech-stack line
WithoutDateRange(line) == ReSub(DateRangeRe, <<>>, line)

\* simple format "Title — Company, Location   Dates", parts = the em-dash split
\* company_location_dates.replace(location, "").strip(" ,") if location
\* else company_location_dates
CompanyOf(company_location_dates, location) ==
    IF ~Falsy(location)
    THEN StripChars(RemoveAll(company_location_dates, location), {" ", ","})
    ELSE company_location_dates

ExperienceSimpleItem(lines, raised, title, company, location, dates) ==
    Item(raised,
         [title |-> OrNone(title), company |-> OrNone(company), location |-> location,
          start_date |-> dates[1], end_date |-> dates[2],
          bullets |-> Bullets(DescFrom(lines, 1)), skills |-> <<>>, priority |-> None])

ExperienceSimpleOf(lines, raised, title, company_location_dates, location) ==
    ExperienceSimpleItem(lines, raised, title, CompanyOf(company_location_dates, location),
                         location, ExtractDates(company_location_dates))

ExperienceSimpleOn(lines, raised, title, company_location_dates) ==
    ExperienceSimpleOf(lines, raised, title, company_location_dates,
                       ExtractLocation(company_location_dates))

ExperienceSimple(lines, parts) ==
    ExperienceSimpleOn(lines, PyIndex(parts, 0).raised \/ PyIndex(parts, 1).raised,
                       Strip(PyIndex(parts, 0).v), Strip(PyIndex(parts, 1).v))

\* second line of the complex format: the wide-gap split gave two parts
TitleAndDatesSplit(l1, title_parts) ==
    [raised |-> l1.raised \/ PyIndex(title_parts, 0).raised \/ PyIndex(title_parts, 1).raised,
     title  |-> Strip(PyIndex(title_parts, 0).v),
     dates  |-> ExtractDates(Strip(PyIndex(title_parts, 1).v))]

\* second line of the complex format: one part, whole = its dates
TitleAndDatesWhole(l1, whole) ==
    [raised |-> l1.raised,
     title  |-> IF ~Falsy(whole[1])
                THEN Strip(StripChars(WithoutDateRange(l1.v), SepChars))
                ELSE Strip(l1.v),
     dates  |-> whole]

TitleAndDatesOf(l1, title_parts) ==
    IF Len(title_parts) >= 2 THEN TitleAndDatesSplit(l1, title_parts)
    ELSE TitleAndDatesWhole(l1, ExtractDates(l1.v))

\* second line of the complex format: title and dates
TitleAndDates(lines) ==
    IF Len(lines) >= 2
    THEN TitleAndDatesOf(PyIndex(lines, 1), WideGapSplit(PyIndex(lines, 1).v))
    ELSE [raised |-> FALSE, title |-> None, dates |-> <<None, None>>]

ExperienceComplexOf(lines, l0, el, td) ==
    Item(l0.raised \/ el.raised \/ td.raised,
         [title |-> IF td.title = None THEN None ELSE OrNone(td.title),
          company |-> OrNone(el.name), location |-> el.location,
          start_date |-> td.dates[1], end_date |-> td.dates[2],
          bullets |-> Bullets(DescFrom(lines, 2)), skills |-> <<>>, priority |-> None])

\* complex format: company and location on line 1, title and dates on line 2
ExperienceComplex(lines) ==
    ExperienceComplexOf(lines, PyIndex(lines, 0), EntityAndLocation(PyIndex(lines, 0).v),
                        TitleAndDates(lines))

ExperienceOfParts(lines, first_line, parts) ==
    IF lines = <<>> THEN NoItem
    ELSE IF HasChar(first_line.v, EMDASH) /\ Len(parts) >= 2
    THEN ExperienceSimple(lines, parts)
    ELSE ExperienceComplex(lines)

ExperienceOfLines(lines) ==
    ExperienceOfParts(lines, PyIndex(lines, 0), EmDashSplit(PyIndex(lines, 0).v))

ExperienceOfChunk(c) == ExperienceOfLines(NonBlankLines(c))

\* ItemsOf with the kept items in reverse chunk order
ItemsOf_Reversed(results) ==
    LET kept == SelectSeq(results, LAMBDA r : ~r.skip)
    IN  [raised |-> \E i \in 1..Len(results) : results[i].raised,
         items  |-> [i \in 1..Len(kept) |-> kept[Len(kept) + 1 - i].item]]

\* the items of the chunks that are not passed over, in chunk order, and
\* whether some chunk raised
ItemsOf(results) ==
    LET kept == SelectSeq(results, LAMBDA r : ~r.skip)
    IN  [raised |-> \E i \in 1..Len(results) : results[i].raised,
         items  |-> [i \in 1..Len(kept) |-> kept[i].item]]

ParseExperience(block) ==
    LET chunks == SplitBlocksByBlanklines(block)
    IN  ItemsOf([i \in 1..Len(chunks) |-> ExperienceOfChunk(chunks[i])])

\* ------------------------------------------------------------------------
\* _parse_education
\* ------------------------------------------------------------------------
\* \bGPA[:\s]+([\d\.]+\/?[\d\.]*)  with re.I
GpaRe ==
    Cat(<< Wb, LitI(<<"G","P","A">>), Plus(Cls({":"} \cup SpaceCh)),
           Grp(1, Cat(<<Plus(Cls(DigitCh \cup {"."})), Opt(Ch("/")), Star(Cls(DigitCh \cup {"."}))>>)) >>)

\* the bullets after line k of a chunk, k >= 1
BulletsAfter(lines, k) ==
    IF Len(lines) > k THEN Bullets(Join(Sub(lines, k + 1, Len(lines)), <<NL>>)) ELSE <<>>

\* index of the first bullet that holds a date, 0 if none
FirstDatedBullet(bullets) ==
    LET dated == SelectSeq(Indices(1, Len(bullets)),
                     LAMBDA i : ~Falsy(ExtractDates(bullets[i])[1]))
    IN  IF dated = <<>> THEN 0 ELSE dated[1]

\* school_line.replace(location, "").strip(" -–—•").strip() if location
\* else school_line.strip()
SchoolOf(school_line, location) ==
    IF ~Falsy(location) THEN WithoutLocation(school_line, location) ELSE Strip(school_line)

\* the second line's GPA and dates, None without a second line
GpaOf(has2, degree_line, gpa_match) ==
    IF has2 /\ gpa_match # NoMatch THEN GroupK(degree_line, gpa_match, 1) ELSE None

Dates2Of(has2, d2) == IF has2 /\ ~Falsy(d2[1]) THEN DatesText(d2) ELSE None

\* k = index of the bullet the dates are taken from, 0 if none
EducationItem(raised, school, location, degree, gpa, dates2, bullets2, k) ==
    Item(raised,
         [school |-> OrNone(school), location |-> location,
          degree |-> IF degree = None THEN None ELSE OrNone(degree),
          major |-> None, gpa |-> gpa,
          dates |-> IF k # 0 THEN DatesText(ExtractDates(bullets2[k])) ELSE dates2,
          bullets |-> IF k # 0 THEN SelectSeq(bullets2, LAMBDA b : b # bullets2[k])
                      ELSE bullets2,
          concentrations |-> <<>>, coursework |-> <<>>, honors |-> <<>>,
          priority |-> None])

EducationOf(raised, school, location, degree, gpa, dates2, bullets2) ==
    EducationItem(raised, school, location, degree, gpa, dates2, bullets2,
                  IF Falsy(dates2) /\ bullets2 # <<>> THEN FirstDatedBullet(bullets2) ELSE 0)

EducationOn(lines, school_line, location, has2, degree_line) ==
    EducationOf(school_line.raised \/ (has2 /\ degree_line.raised),
                SchoolOf(school_line.v, location), location,
                IF has2 THEN degree_line.v ELSE None,
                GpaOf(has2, degree_line.v, ReSearch(GpaRe, degree_line.v)),
                Dates2Of(has2, ExtractDates(degree_line.v)),
                BulletsAfter(lines, 2))

EducationOfLines(lines) ==
    IF lines = <<>> THEN NoItem
    ELSE EducationOn(lines, PyIndex(lines, 0), ExtractLocation(PyIndex(lines, 0).v),
                     Len(lines) >= 2, PyIndex(lines, 1))

EducationOfChunk(c) == EducationOfLines(NonBlankLines(c))

ParseEducation(block) ==
    LET chunks == SplitBlocksByBlanklines(block)
    IN  ItemsOf([i \in 1..Len(chunks) |-> EducationOfChunk(chunks[i])])

\* ------------------------------------------------------------------------
\* _parse_projects, _parse_volunteer
\* ------------------------------------------------------------------------
\* [s.strip() for s in tech_stack.split('|') if s.strip()]
PipeSkills(tech_stack) ==
    SelectSeq(StripEach(SplitChar(tech_stack, "|")), LAMBDA x : x # <<>>)

\* f"{start_date} - {end_date}" if start_date else None
DatesTextOrNone(d) == IF ~Falsy(d[1]) THEN DatesText(d) ELSE None

\* simple format "Project Name — Year", parts = the em-dash split
ProjectSimpleOf(lines, p0, p1, d) ==
    Item(p0.raised \/ p1.raised,
         [name |-> OrNone(Strip(p0.v)), location |-> None,
          dates |-> IF ~Falsy(d[1]) /\ ~Falsy(d[2]) THEN DashJoin(d[1], d[2]) ELSE d[1],
          bullets |-> BulletsAfter(lines, 1),
          skills |-> <<>>, priority |-> None])

ProjectSimple(lines, parts) ==
    ProjectSimpleOf(lines, PyIndex(parts, 0), PyIndex(parts, 1),
                    ExtractDates(Strip(PyIndex(parts, 1).v)))

TechAndDatesOf(l1, tech_parts) ==
    IF Len(tech_parts) >= 2
    THEN [raised |-> l1.raised \/ PyIndex(tech_parts, 0).raised \/ PyIndex(tech_parts, 1).raised,
          skills |-> PipeSkills(Strip(PyIndex(tech_parts, 0).v)),
          dates  |-> DatesTextOrNone(ExtractDates(Strip(PyIndex(tech_parts, 1).v)))]
    ELSE [raised |-> l1.raised,
          skills |-> PipeSkills(Strip(WithoutDateRange(l1.v))),
          dates  |-> DatesTextOrNone(ExtractDates(l1.v))]

\* second line of a project: tech stack and dates
TechAndDates(lines) ==
    IF Len(lines) >= 2
    THEN TechAndDatesOf(PyIndex(lines, 1), WideGapSplit(PyIndex(lines, 1).v))
    ELSE [raised |-> FALSE, skills |-> <<>>, dates |-> None]

ProjectComplexOf(lines, l0, el, td) ==
    Item(l0.raised \/ el.raised \/ td.raised,
         [name |-> OrNone(el.name), location |-> el.location, dates |-> td.dates,
          bullets |-> BulletsAfter(lines, 2),
          skills |-> td.skills, priority |-> None])

ProjectComplex(lines) ==
    ProjectComplexOf(lines, PyIndex(lines, 0), EntityAndLocation(PyIndex(lines, 0).v),
                     TechAndDates(lines))

ProjectOfParts(lines, name_line, parts) ==
    IF lines = <<>> THEN NoItem
    ELSE IF HasChar(name_line.v, EMDASH) /\ Len(parts) >= 2
    THEN ProjectSimple(lines, parts)
    ELSE ProjectComplex(lines)

ProjectOfLines(lines) ==
    ProjectOfParts(lines, PyIndex(lines, 0), EmDashSplit(PyIndex(lines, 0).v))

ProjectOfChunk(c) == ProjectOfLines(NonBlankLines(c))

ParseProjects(block) ==
    LET chunks == SplitBlocksByBlanklines(block)
    IN  ItemsOf([i \in 1..Len(chunks) |-> ProjectOfChunk(chunks[i])])

\* second line of a volunteer entry: organization and dates
OrgAndDatesOf(l1, org_parts) ==
    IF Len(org_parts) >= 2
    THEN [raised |-> l1.raised \/ PyIndex(org_parts, 0).raised \/ PyIndex(org_parts, 1).raised,
          dates  |-> DatesTextOrNone(ExtractDates(Strip(PyIndex(org_parts, 1).v)))]
    ELSE [raised |-> l1.raised, dates |-> DatesTextOrNone(ExtractDates(l1.v))]

OrgAndDates(lines) ==
    IF Len(lines) >= 2
    THEN OrgAndDatesOf(PyIndex(lines, 1), WideGapSplit(PyIndex(lines, 1).v))
    ELSE [raised |-> FALSE, dates |-> None]

VolunteerOf(lines, l0, el, od) ==
    Item(l0.raised \/ el.raised \/ od.raised,
         [name |-> OrNone(el.name), location |-> el.location, dates |-> od.dates,
          bullets |-> BulletsAfter(lines, 2),
          skills |-> <<>>, priority |-> None])

VolunteerOfLines(lines) ==
    IF lines = <<>> THEN NoItem
    ELSE VolunteerOf(lines, PyIndex(lines, 0), EntityAndLocation(PyIndex(lines, 0).v),
                     OrgAndDates(lines))

VolunteerOfChunk(c) == VolunteerOfLines(NonBlankLines(c))

ParseVolunteer(block) ==
    LET chunks == SplitBlocksByBlanklines(block)
    IN  ItemsOf([i \in 1..Len(chunks) |-> VolunteerOfChunk(chunks[i])])

\* ------------------------------------------------------------------------
\* _parse_skills, _parse_languages
\* ------------------------------------------------------------------------
\* sequence concatenation of a sequence of sequences
RECURSIVE Flatten(_)
Flatten(ss) == IF ss = <<>> THEN <<>> ELSE Head(ss) \o Flatten(Tail(ss))

\* SkillRhs without the test for a colon
SkillRhs_Unguarded(line) == PyIndex(SplitCharOnce(line, ":"), 1)

\* the part of a skills line that is split into tokens:
\* line.split(":", 1)[1] if ":" in line else line
SkillRhs(line) ==
    IF HasChar(line, ":") THEN PyIndex(SplitCharOnce(line, ":"), 1)
    ELSE [raised |-> FALSE, v |-> line]

\* [p.strip() for p in re.split(r"[,\|]", rhs) if p.strip()]
SkillTokens(rhs) ==
    SelectSeq(StripEach(ReSplit(Cls({",", "|"}), rhs)), LAMBDA x : x # <<>>)

\* DedupeLower that compares the entries as written
DedupeLower_Exact(skills) ==
    LET keep == SelectSeq(Indices(1, Len(skills)),
                    LAMBDA i : \A j \in 1..(i - 1) : skills[j] # skills[i])
    IN  [k \in 1..Len(keep) |-> skills[keep[k]]]

\* order-preserving dedupe on s.lower(): an entry stays iff no earlier entry
\* has the same lower-casing
DedupeLower(skills) ==
    LET keep == SelectSeq(Indices(1, Len(skills)),
                    LAMBDA i : \A j \in 1..(i - 1) : StrLower(skills[j]) # StrLower(skills[i]))
    IN  [k \in 1..Len(keep) |-> skills[keep[k]]]

ParseSkills(block) ==
    LET lines == SelectSeq(SplitLines(block), LAMBDA l : Strip(l) # <<>>)
        rhs   == [i \in 1..Len(lines) |-> SkillRhs(lines[i])]
    IN  [raised |-> \E i \in 1..Len(rhs) : rhs[i].raised,
         items  |-> DedupeLower(Flatten([i \in 1..Len(rhs) |-> SkillTokens(rhs[i].v)]))]

\* ([A-Za-z\s]+)\s*\(([^)]+)\)
LanguageRe ==
    Cat(<< Grp(1, Plus(Cls(AlphaCh \cup SpaceCh))), Star(SpaceCls),
           Ch("("), Grp(2, Plus(NCls({")"}))), Ch(")") >>)

\* f"{lang} — {level}"
EmDashJoin(a, b) == a \o <<" ", EMDASH, " ">> \o b

LanguageOfLine(line) ==
    LET m == ReMatch(LanguageRe, line)
    IN  IF m # NoMatch
        THEN EmDashJoin(Strip(GroupK(line, m, 1)), StrTitle(Strip(GroupK(line, m, 2))))
        ELSE line

ParseLanguages(block) ==
    LET lines == SelectSeq(StripEach(SplitLines(block)), LAMBDA l : l # <<>>)
    IN  [i \in 1..Len(lines) |-> LanguageOfLine(lines[i])]

\* ------------------------------------------------------------------------
\* _parse_certs: one pass of the while loop
\* ------------------------------------------------------------------------
\* the loop's state is <<i, out>>; lines = the non-blank lines of the block
CertLines(block) == NonBlankLines(block)

\* the peek: i + 1 < len(lines) and not HEADER_PATTERN.match(lines[i+1].strip())
CertTakesNext(lines, i) ==
    i + 1 < Len(lines) /\ ReMatch(HEADER_PATTERN, Strip(lines[i + 2])) = NoMatch

\* one iteration from index i (counted from 0): the entry appended and the next i
CertStep(lines, i) ==
    LET name == PyIndex(lines, i)
        org  == PyIndex(lines, i + 1)
        take == CertTakesNext(lines, i)
    IN  [raised |-> name.raised \/ (take /\ org.raised),
         combo  |-> IF take /\ ~Falsy(Strip(org.v))
                    THEN EmDashJoin(Strip(name.v), Strip(org.v)) ELSE Strip(name.v),
         next   |-> IF take THEN i + 2 ELSE i + 1]

\* the whole loop, as the sequence of entries
RECURSIVE CertsFrom(_, _)
CertsFrom(lines, i) ==
    IF i < Len(lines)
    THEN <<CertStep(lines, i).combo>> \o CertsFrom(lines, CertStep(lines, i).next)
    ELSE <<>>

ParseCerts(block) == CertsFrom(CertLines(block), 0)

\* ------------------------------------------------------------------------
\* parse_resume as a state machine
\* ------------------------------------------------------------------------
VARIABLES
    pc,              \* position in parse_resume
    raw,             \* the text the reader returned
    text,            \* the normalized text
    sections,        \* dict of canonical name -> body
    r,               \* the Resume under construction
    project_skills,  \* skills collected from the project items
    cert_lines,      \* _parse_certs: the non-blank lines of the block
    cert_i,          \* _parse_certs: the loop index i
    cert_out,        \* _parse_certs: the list out
    result,          \* the returned dict
    base,            \* rewrite_sections_single_call: the validated input record
    compact,         \* rewrite_sections_single_call: the copy cut down for the prompt
    replies,         \* the replies of _call_model so far, in call order
    tailored,        \* the dict rewrite_sections_single_call returned
    ctx              \* build_template_context: the experience items of the context

\* the variables of the rewrite and export steps
later == <<base, compact, replies, tailored, ctx>>

vars == <<pc, raw, text, sections, r, project_skills, cert_lines, cert_i, cert_out, result,
          base, compact, replies, tailored, ctx>>

\* Resume()
EmptyResume ==
    [contact |-> EmptyContact, summary |-> None,
     experience |-> <<>>, education |-> <<>>, projects |-> <<>>,
     skills |-> <<>>, skills_matrix |-> <<>>,
     certifications |-> <<>>, languages |-> <<>>, volunteer |-> <<>>,
     honors |-> <<>>, interests |-> <<>>, affiliations |-> <<>>,
     publications |-> <<>>, awards |-> <<>>, meta |-> <<>>]

\* before the rewrite step: nothing validated, no reply, nothing returned
Untailored ==
    /\ base = None
    /\ compact = None
    /\ replies = <<>>
    /\ tailored = None
    /\ ctx = None

\* the first key of keys that is in the dict, or None
FirstKey(d, keys) ==
    LET present == SelectSeq(keys, LAMBDA k : DictHas(d, k))
    IN  IF present = <<>> THEN None ELSE present[1]

SummaryKeys       == <<SUMMARY, OBJECTIVE>>
ExperienceKeys    == <<EXPERIENCE, WORK_EXPERIENCE, PROFESSIONAL_EXPERIENCE>>
SkillsKeys        == <<TECHNICAL_SKILLS, SKILLS>>
CertificationKeys == <<CERTIFICATIONS_LICENSES, CERTIFICATIONS, LICENSES>>
LanguageKeys      == <<LANGUAGES, LANGUAGE>>
VolunteerKeys     == <<VOLUNTEER_EXPERIENCE, VOLUNTEER>>

\* the summary: sections["SUMMARY"], else sections["OBJECTIVE"], else unset
SummaryOf(secs) ==
    IF FirstKey(secs, SummaryKeys) = None THEN None
    ELSE DictGet(secs, FirstKey(secs, SummaryKeys))

\* all the skills of the project items, in project order
ProjectSkillsOf(projects) == Flatten([i \in 1..Len(projects) |-> projects[i].skills])

Goto(label) == pc' = label
Raise == pc' = "error"

\* raw = _read_text(path); text = _normalize_text_preserve_tabs(raw)
Normalize ==
    /\ pc = "normalize"
    /\ text' = NormalizeTextPreserveTabs(raw)
    /\ Goto("split")
    /\ UNCHANGED <<raw, sections, r, project_skills, cert_lines, cert_i, cert_out, result>>
    /\ UNCHANGED later

\* sections = _split_sections(text); r = Resume()
Segment ==
    /\ pc = "split"
    /\ sections' = SplitSections(text)
    /\ r' = EmptyResume
    /\ Goto("contact")
    /\ UNCHANGED <<raw, text, project_skills, cert_lines, cert_i, cert_out, result>>
    /\ UNCHANGED later

ParseContact ==
    /\ pc = "contact"
    /\ r' = [r EXCEPT !.contact = ParseContactBlock(text)]
    /\ Goto("summary")
    /\ UNCHANGED <<raw, text, sections, project_skills, cert_lines, cert_i, cert_out, result>>
    /\ UNCHANGED later

SetSummary ==
    /\ pc = "summary"
    /\ r' = [r EXCEPT !.summary = SummaryOf(sections)]
    /\ Goto("experience")
    /\ UNCHANGED <<raw, text, sections, project_skills, cert_lines, cert_i, cert_out, result>>
    /\ UNCHANGED later

Experience ==
    /\ pc = "experience"
    /\ LET key == FirstKey(sections, ExperienceKeys)
           res == ParseExperience(DictGet(sections, key))
       IN  IF key = None THEN Goto("education") /\ r' = r
           ELSE IF res.raised THEN Raise /\ r' = r
           ELSE Goto("education") /\ r' = [r EXCEPT !.experience = res.items]
    /\ UNCHANGED <<raw, text, sections, project_skills, cert_lines, cert_i, cert_out, result>>
    /\ UNCHANGED later

Education ==
    /\ pc = "education"
    /\ LET res == ParseEducation(DictGet(sections, EDUCATION))
       IN  IF ~DictHas(sections, EDUCATION) THEN Goto("projects") /\ r' = r
           ELSE IF res.raised THEN Raise /\ r' = r
           ELSE Goto("projects") /\ r' = [r EXCEPT !.education = res.items]
    /\ UNCHANGED <<raw, text, sections, project_skills, cert_lines, cert_i, cert_out, result>>
    /\ UNCHANGED later

Projects ==
    /\ pc = "projects"
    /\ LET res == ParseProjects(DictGet(sections, PROJECTS))
       IN  IF ~DictHas(sections, PROJECTS)
           THEN Goto("skills") /\ r' = r /\ project_skills' = <<>>
           ELSE IF res.raised THEN Raise /\ r' = r /\ project_skills' = <<>>
           ELSE /\ Goto("skills")
                /\ r' = [r EXCEPT !.projects = res.items]
                /\ project_skills' = ProjectSkillsOf(res.items)
    /\ UNCHANGED <<raw, text, sections, cert_lines, cert_i, cert_out, result>>
    /\ UNCHANGED later

\* main skills, then the merge with the project skills
Skills ==
    /\ pc = "skills"
    /\ LET key == FirstKey(sections, SkillsKeys)
           res == IF key = None THEN [raised |-> FALSE, items |-> <<>>]
                  ELSE ParseSkills(DictGet(sections, key))
       IN  IF res.raised THEN Raise /\ r' = r
           ELSE /\ Goto("certs")
                /\ r' = [r EXCEPT !.skills = DedupeLower(res.items \o project_skills)]
    /\ UNCHANGED <<raw, text, sections, project_skills, cert_lines, cert_i, cert_out, result>>
    /\ UNCHANGED later

\* entry of _parse_certs, or no certifications section
CertsBegin ==
    /\ pc = "certs"
    /\ LET key == FirstKey(sections, CertificationKeys)
       IN  IF key = None
           THEN Goto("languages") /\ UNCHANGED <<cert_lines, cert_i, cert_out>>
           ELSE /\ Goto("certs_loop")
                /\ cert_lines' = CertLines(DictGet(sections, key))
                /\ cert_i' = 0
                /\ cert_out' = <<>>
    /\ UNCHANGED <<raw, text, sections, r, project_skills, result>>
    /\ UNCHANGED later

\* one pass of "while i < len(lines)"
CertsIterate ==
    /\ pc = "certs_loop"
    /\ cert_i < Len(cert_lines)
    /\ LET step == CertStep(cert_lines, cert_i)
       IN  IF step.raised THEN Raise /\ UNCHANGED <<cert_i, cert_out>>
           ELSE /\ cert_out' = Append(cert_out, step.combo)
                /\ cert_i' = step.next
                /\ UNCHANGED pc
    /\ UNCHANGED <<raw, text, sections, r, project_skills, cert_lines, result>>
    /\ UNCHANGED later

\* the loop exits: r.certifications = out
CertsEnd ==
    /\ pc = "certs_loop"
    /\ ~(cert_i < Len(cert_lines))
    /\ r' = [r EXCEPT !.certifications = cert_out]
    /\ Goto("languages")
    /\ UNCHANGED <<raw, text, sections, project_skills, cert_lines, cert_i, cert_out, result>>
    /\ UNCHANGED later

Languages ==
    /\ pc = "languages"
    /\ LET key == FirstKey(sections, LanguageKeys)
       IN  IF key = None THEN r' = r
           ELSE r' = [r EXCEPT !.languages = ParseLanguages(DictGet(sections, key))]
    /\ Goto("volunteer")
    /\ UNCHANGED <<raw, text, sections, project_skills, cert_lines, cert_i, cert_out, result>>
    /\ UNCHANGED later

Volunteer ==
    /\ pc = "volunteer"
    /\ LET key == FirstKey(sections, VolunteerKeys)
           res == ParseVolunteer(DictGet(sections, key))
       IN  IF key = None THEN Goto("return") /\ r' = r
           ELSE IF res.raised THEN Raise /\ r' = r
           ELSE Goto("return") /\ r' = [r EXCEPT !.volunteer = res.items]
    /\ UNCHANGED <<raw, text, sections, project_skills, cert_lines, cert_i, cert_out, result>>
    /\ UNCHANGED later

\* return r.model_dump()
Return ==
    /\ pc = "return"
    /\ result' = r
    /\ Goto("done")
    /\ UNCHANGED <<raw, text, sections, r, project_skills, cert_lines, cert_i, cert_out>>
    /\ UNCHANGED later

\* ------------------------------------------------------------------------
\* Input documents
\* ------------------------------------------------------------------------
\* longest sequence of sections appended to a preamble
MaxSections == 2

\* Jane Doe
PreName ==
    <<"J","a","n","e"," ","D","o","e">>
\* Jane Doe\nAustin, TX | (512) 555-0100 | jane@x.com
PreFull ==
    <<"J","a","n","e"," ","D","o","e",NL,"A","u","s","t","i","n",","," ","T","X"," ","|",
      " ","(","5","1","2",")"," ","5","5","5","-","0","1","0","0"," ","|"," ","j","a","n",
      "e","@","x",".","c","o","m">>
\* Jo Roe \nlinkedin.com/in/jo\xa0 github.com/jo
PreLinks ==
    <<"J","o"," ","R","o","e"," ",NL,"l","i","n","k","e","d","i","n",".","c","o","m","/",
      "i","n","/","j","o",NBSP," ","g","i","t","h","u","b",".","c","o","m","/","j","o">>
\* SUMMARY\nGood dev
SecSummary ==
    <<"S","U","M","M","A","R","Y",NL,"G","o","o","d"," ","d","e","v">>
\* OBJECTIVE\nGet job
SecObjective ==
    <<"O","B","J","E","C","T","I","V","E",NL,"G","e","t"," ","j","o","b">>
\* Experience:\nAcme   Reno, NV\nDev   Jan 2022 - Present\n- Built it
SecExperience ==
    <<"E","x","p","e","r","i","e","n","c","e",":",NL,"A","c","m","e"," "," "," ","R","e",
      "n","o",","," ","N","V",NL,"D","e","v"," "," "," ","J","a","n"," ","2","0","2","2",
      " ","-"," ","P","r","e","s","e","n","t",NL,"-"," ","B","u","i","l","t"," ","i","t">>
\* EDUCATION\n\nMIT\nBS GPA: 3.9\n- May 2020
SecEducation ==
    <<"E","D","U","C","A","T","I","O","N",NL,NL,"M","I","T",NL,"B","S"," ","G","P","A",":",
      " ","3",".","9",NL,"-"," ","M","a","y"," ","2","0","2","0">>
\* PROJECTS\nBot\tNYC\nGo|rust\tJan 2020
SecProjects ==
    <<"P","R","O","J","E","C","T","S",NL,"B","o","t",TAB,"N","Y","C",NL,"G","o","|","r","u",
      "s","t",TAB,"J","a","n"," ","2","0","2","0">>
\* skills:\nLang: Go, Rust, go\nGit
SecSkills ==
    <<"s","k","i","l","l","s",":",NL,"L","a","n","g",":"," ","G","o",","," ","R","u","s",
      "t",","," ","g","o",NL,"G","i","t">>
\* CERTIFICATIONS\nAWS\nAmazon\nPMP
SecCerts ==
    <<"C","E","R","T","I","F","I","C","A","T","I","O","N","S",NL,"A","W","S",NL,"A","m","a",
      "z","o","n",NL,"P","M","P">>
\* LANGUAGES\nSpanish (fluent)\nFrench
SecLanguages ==
    <<"L","A","N","G","U","A","G","E","S",NL,"S","p","a","n","i","s","h"," ","(","f","l",
      "u","e","n","t",")",NL,"F","r","e","n","c","h">>
\* VOLUNTEER\nTutor\tNYC\nbob@y.org
SecVolunteer ==
    <<"V","O","L","U","N","T","E","E","R",NL,"T","u","t","o","r",TAB,"N","Y","C",NL,"b","o",
      "b","@","y",".","o","r","g">>
\* SKILLS\n \n
SecEmpty ==
    <<"S","K","I","L","L","S",NL," ",NL>>
\* Jane Doe\nAustin, TX | (512) 555-0100 | jane@x.com\n\nEXPERIENCE\nAcme Corp   Austin, TX\nEngineer   Jan 2022 - Present\n- Built service
DocScenario1 ==
    <<"J","a","n","e"," ","D","o","e",NL,"A","u","s","t","i","n",","," ","T","X"," ","|",
      " ","(","5","1","2",")"," ","5","5","5","-","0","1","0","0"," ","|"," ","j","a","n",
      "e","@","x",".","c","o","m",NL,NL,"E","X","P","E","R","I","E","N","C","E",NL,"A","c",
      "m","e"," ","C","o","r","p"," "," "," ","A","u","s","t","i","n",","," ","T","X",NL,
      "E","n","g","i","n","e","e","r"," "," "," ","J","a","n"," ","2","0","2","2"," ","-",
      " ","P","r","e","s","e","n","t",NL,"-"," ","B","u","i","l","t"," ","s","e","r","v",
      "i","c","e">>
\* Jane Doe\nSKILLS\nLanguages: Python, Go, python\nTools: Git
DocScenario2 ==
    <<"J","a","n","e"," ","D","o","e",NL,"S","K","I","L","L","S",NL,"L","a","n","g","u","a",
      "g","e","s",":"," ","P","y","t","h","o","n",","," ","G","o",","," ","p","y","t","h",
      "o","n",NL,"T","o","o","l","s",":"," ","G","i","t">>
\* Ann Lee\nSummary\nA\n\nB\neducation:\nMIT\nSKILLS\nGo, C
DocThreeA ==
    <<"A","n","n"," ","L","e","e",NL,"S","u","m","m","a","r","y",NL,"A",NL,NL,"B",NL,"e",
      "d","u","c","a","t","i","o","n",":",NL,"M","I","T",NL,"S","K","I","L","L","S",NL,"G",
      "o",","," ","C">>
\* WORK EXPERIENCE\n\nAcme\nDev\nLicenses :\nPMP\n\n\n\nLanguage\n \nFrench\n
DocThreeB ==
    <<"W","O","R","K"," ","E","X","P","E","R","I","E","N","C","E",NL,NL,"A","c","m","e",NL,
      "D","e","v",NL,"L","i","c","e","n","s","e","s"," ",":",NL,"P","M","P",NL,NL,NL,NL,"L",
      "a","n","g","u","a","g","e",NL," ",NL,"F","r","e","n","c","h",NL>>

\* Jane Doe\nSkills and tools\nGo, C\nj@x.io
DocPlainA ==
    <<"J","a","n","e"," ","D","o","e",NL,"S","k","i","l","l","s"," ","a","n","d"," ","t",
      "o","o","l","s",NL,"G","o",","," ","C",NL,"j","@","x",".","i","o">>
\* Projects 2021\nBot\tNYC\n\nEDUCATION-\nMIT  512.555.0100
DocPlainB ==
    <<"P","r","o","j","e","c","t","s"," ","2","0","2","1",NL,"B","o","t",TAB,"N","Y","C",NL,
      NL,"E","D","U","C","A","T","I","O","N","-",NL,"M","I","T"," "," ","5","1","2",".","5",
      "5","5",".","0","1","0","0">>

\* Ann\nSKILLS\nGo\nTechnical Skills:\n\nEDUCATION\nMIT
DocRepeat ==
    <<"A","n","n",NL,"S","K","I","L","L","S",NL,"G","o",NL,"T","e","c","h","n","i","c",
      "a","l"," ","S","k","i","l","l","s",":",NL,NL,"E","D","U","C","A","T","I","O","N",
      NL,"M","I","T">>

Preambles == {<<>>, PreFull}

SectionPool ==
    {SecSummary, SecObjective, SecExperience, SecEducation, SecProjects,
     SecSkills, SecCerts, SecVolunteer}

SeqsUpTo(S, n) == UNION {[1..k -> S] : k \in 0..n}

\* a preamble followed by sections, one per line
Compose(pre, secs) == Join(<<pre>> \o secs, <<NL>>)

ScenarioDocs ==
    {DocScenario1, DocScenario2, DocThreeA, DocThreeB, DocPlainA, DocPlainB, DocRepeat, PreName,
     Compose(PreName, <<SecEmpty, SecCerts>>),
     Compose(PreLinks, <<SecLanguages, SecEmpty>>)}

Documents ==
    ScenarioDocs \cup
    {Compose(pre, secs) : pre \in Preambles, secs \in SeqsUpTo(SectionPool, MaxSections)}

\* texts of one header (or none) and up to MaxBodyLines short lines: plain,
\* with a colon, bulleted, tabbed, blank, a date
MaxBodyLines == 2

ShapeHeaders == {<<>>} \cup {HEADER_ALIASES[k].canon : k \in DOMAIN HEADER_ALIASES}

ShapeLines ==
    { <<"A","n","n">>,
      <<"G","o",":">>,
      <<"-"," ","x">>,
      <<"B","o","t",TAB,"N","Y">>,
      <<>>,
      <<"M","a","y"," ","2","0","2","0">> }

ShapeDoc(hdr, lines) == Join((IF hdr = <<>> THEN <<>> ELSE <<hdr>>) \o lines, <<NL>>)

ShapeDocuments ==
    ScenarioDocs \cup
    {ShapeDoc(hdr, lines) : hdr \in ShapeHeaders, lines \in SeqsUpTo(ShapeLines, MaxBodyLines)}

\* ------------------------------------------------------------------------
\* Input documents of the chunk extractors: one header of an item section
\* and up to MaxChunks chunks, separated by blank lines
\* ------------------------------------------------------------------------
MaxChunks == 2

\* Acme\tReno, NV\nDev\tJan 2022 - Present\n- Led X\n- Built Y\n- Shipped Z
ChunkLed ==
    <<"A","c","m","e",TAB,"R","e","n","o",","," ","N","V",NL,"D","e","v",TAB,"J","a",
      "n"," ","2","0","2","2"," ","-"," ","P","r","e","s","e","n","t",NL,"-"," ","L",
      "e","d"," ","X",NL,"-"," ","B","u","i","l","t"," ","Y",NL,"-"," ","S","h","i","p",
      "p","e","d"," ","Z">>
\* Bot — 2021\nGo|rust\n* Fast
ChunkCompact ==
    <<"B","o","t"," ",EMDASH," ","2","0","2","1",NL,"G","o","|","r","u","s","t",NL,"*",
      " ","F","a","s","t">>
\* MIT\tNYC\nBS\n- GPA: 3.9\n- May 2020\n- Honors
ChunkGpa ==
    <<"M","I","T",TAB,"N","Y","C",NL,"B","S",NL,"-"," ","G","P","A",":"," ","3",".","9",
      NL,"-"," ","M","a","y"," ","2","0","2","0",NL,"-"," ","H","o","n","o","r","s">>
\* Austin, TX\tReno, NV\nBS GPA: 3.9\tMay 2020
ChunkLoc ==
    <<"A","u","s","t","i","n",","," ","T","X",TAB,"R","e","n","o",","," ","N","V",NL,
      "B","S"," ","G","P","A",":"," ","3",".","9",TAB,"M","a","y"," ","2","0","2","0">>
\* Solo
ChunkSolo ==
    <<"S","o","l","o">>

ChunkPool == {ChunkLed, ChunkCompact, ChunkGpa, ChunkLoc, ChunkSolo}

ItemHeaders == {EXPERIENCE, EDUCATION, PROJECTS, VOLUNTEER}

\* a header line, then the chunks with one blank line between them
ChunkDoc(hdr, chunks) == hdr \o <<NL>> \o Join(chunks, <<NL, NL>>)

ExtractDocuments ==
    ScenarioDocs \cup
    {ChunkDoc(hdr, chunks) : hdr \in ItemHeaders, chunks \in SeqsUpTo(ChunkPool, MaxChunks)}

\* ------------------------------------------------------------------------
\* Specification of one parse_resume call
\* ------------------------------------------------------------------------
InitOn(inputs) ==
    /\ pc = "normalize"
    /\ raw \in inputs
    /\ text = <<>>
    /\ sections = <<>>
    /\ r = EmptyResume
    /\ project_skills = <<>>
    /\ cert_lines = <<>>
    /\ cert_i = 0
    /\ cert_out = <<>>
    /\ result = None
    /\ Untailored

Init == InitOn(Documents)

Next ==
    \/ Normalize
    \/ Segment
    \/ ParseContact
    \/ SetSummary
    \/ Experience
    \/ Education
    \/ Projects
    \/ Skills
    \/ CertsBegin
    \/ CertsIterate
    \/ CertsEnd
    \/ Languages
    \/ Volunteer
    \/ Return

Spec == Init /\ [][Next]_vars

\* Next is enabled exactly while the call has neither returned nor raised:
\* every action is guarded by its own value of pc alone, but for CertsIterate
\* and CertsEnd, whose guards on cert_i are complementary
NextEnabled == pc \notin {"done", "error"}

\* the call runs on: a step that can be taken is eventually taken.  This is
\* WF_vars(Next), with ENABLED <<Next>>_vars written as NextEnabled.
FairSpec ==
    /\ InitOn(ShapeDocuments)
    /\ [][Next]_vars
    /\ ([]<>(~NextEnabled) \/ []<><<Next>>_vars)

\* parse_resume on the documents of the chunk extractors
ExtractSpec == InitOn(ExtractDocuments) /\ [][Next]_vars

\* ------------------------------------------------------------------------
\* Specification of the header scan on one line (_split_sections on a line
\* followed by one body line)
\* ------------------------------------------------------------------------
AllAliases == UNION {HEADER_ALIASES[k].aliases : k \in DOMAIN HEADER_ALIASES}

\* the canonical name the table lists an alias under
CanonOfAlias(a) ==
    HEADER_ALIASES[CHOOSE k \in DOMAIN HEADER_ALIASES : a \in HEADER_ALIASES[k].aliases].canon

\* letter casings of an alias: upper, lower, capitalised words, alternating
AlternateCase(s) == [i \in 1..Len(s) |-> IF i % 2 = 1 THEN LowerOf(s[i]) ELSE UpperOf(s[i])]
Casings(a) == {a, StrLower(a), StrTitle(a), AlternateCase(a)}

\* a spelling with or without the trailing colon, with or without whitespace around
Decorations(w) ==
    {pre \o w \o colon \o post :
        pre \in {<<>>, <<" ", TAB>>}, colon \in {<<>>, <<":">>}, post \in {<<>>, <<" ">>}}

AliasLines == UNION {Decorations(w) : w \in UNION {Casings(a) : a \in AllAliases}}

\* lines that resemble an alias: a letter more, a letter less, a doubled
\* colon, text after the colon, a doubled inner space, a digit
NearAliasLines ==
    UNION {{a \o <<"X">>, Sub(a, 1, Len(a) - 1), a \o <<":", ":">>,
            StrLower(a) \o <<":", " ", "x">>, a \o <<" ", "2">>,
            ReSub(Ch(" "), <<" ", " ">>, a) \o <<"S">>} : a \in AllAliases}

HeaderLines == AliasLines \cup NearAliasLines

BodyLine == <<"x">>

HdrInit ==
    /\ pc = "scan"
    /\ raw \in HeaderLines
    /\ text = <<>>
    /\ sections = <<>>
    /\ r = EmptyResume
    /\ project_skills = <<>>
    /\ cert_lines = <<>>
    /\ cert_i = 0
    /\ cert_out = <<>>
    /\ result = None
    /\ Untailored

\* the line, one body line after it, through _split_sections
HdrScan ==
    /\ pc = "scan"
    /\ text' = raw \o <<NL>> \o BodyLine
    /\ sections' = SplitSections(raw \o <<NL>> \o BodyLine)
    /\ Goto("scanned")
    /\ UNCHANGED <<raw, r, project_skills, cert_lines, cert_i, cert_out, result>>
    /\ UNCHANGED later

HdrNext == HdrScan

SpecHeader == HdrInit /\ [][HdrNext]_vars

\* ------------------------------------------------------------------------
\* Specification of normalizing a text twice, in either mode
\* ------------------------------------------------------------------------
\* longest raw text that is normalized
MaxNormLen == 5

NormAlphabet == {"a", " ", TAB, NBSP, NL, CR}

NormInputs == SeqsUpTo(NormAlphabet, MaxNormLen)

NormInit ==
    /\ pc \in {"collapse", "preserve"}
    /\ raw \in NormInputs
    /\ text = <<>>
    /\ sections = <<>>
    /\ r = EmptyResume
    /\ project_skills = <<>>
    /\ cert_lines = <<>>
    /\ cert_i = 0
    /\ cert_out = <<>>
    /\ result = None
    /\ Untailored

\* text = _normalize_text(raw); result = _normalize_text(text)
CollapseOnce ==
    /\ pc = "collapse"
    /\ text' = NormalizeText(raw)
    /\ Goto("collapsed")
    /\ UNCHANGED <<raw, sections, r, project_skills, cert_lines, cert_i, cert_out, result>>
    /\ UNCHANGED later

CollapseTwice ==
    /\ pc = "collapsed"
    /\ result' = NormalizeText(text)
    /\ Goto("collapsed_twice")
    /\ UNCHANGED <<raw, text, sections, r, project_skills, cert_lines, cert_i, cert_out>>
    /\ UNCHANGED later

\* text = _normalize_text_preserve_tabs(raw); result = _normalize_text_preserve_tabs(text)
PreserveOnce ==
    /\ pc = "preserve"
    /\ text' = NormalizeTextPreserveTabs(raw)
    /\ Goto("preserved")
    /\ UNCHANGED <<raw, sections, r, project_skills, cert_lines, cert_i, cert_out, result>>
    /\ UNCHANGED later

PreserveTwice ==
    /\ pc = "preserved"
    /\ result' = NormalizeTextPreserveTabs(text)
    /\ Goto("preserved_twice")
    /\ UNCHANGED <<raw, text, sections, r, project_skills, cert_lines, cert_i, cert_out>>
    /\ UNCHANGED later

NormNext == CollapseOnce \/ CollapseTwice \/ PreserveOnce \/ PreserveTwice

SpecNorm == NormInit /\ [][NormNext]_vars

\* ------------------------------------------------------------------------
\* schema.py: Resume.model_validate and model_dump
\* ------------------------------------------------------------------------
\* Priority = Literal["high", "med", "low"]
Priority == {<<"h","i","g","h">>, <<"m","e","d">>, <<"l","o","w">>}

\* a JSON value where the schema wants an object: a string, or an object
JsonStr(s) == [kind |-> "str", v |-> s]
JsonObject(d) == [kind |-> "dict", v |-> d]

\* json.load of the file the parse command wrote with json.dump: strings,
\* null and lists are read back as written; the entries of certifications are
\* the strings _parse_certs made
ParsedJson(res) ==
    [res EXCEPT !.certifications =
        [i \in 1..Len(res.certifications) |-> JsonStr(res.certifications[i])]]

ExperienceItemDefaults ==
    [title |-> None, company |-> None, location |-> None, start_date |-> None,
     end_date |-> None, bullets |-> <<>>, skills |-> <<>>, priority |-> None]

EducationItemDefaults ==
    [school |-> None, location |-> None, degree |-> None, major |-> None, gpa |-> None,
     dates |-> None, bullets |-> <<>>, concentrations |-> <<>>, coursework |-> <<>>,
     honors |-> <<>>, priority |-> None]

ProjectItemDefaults ==
    [name |-> None, location |-> None, dates |-> None, bullets |-> <<>>,
     skills |-> <<>>, priority |-> None]

CertificationItemDefaults ==
    [name |-> None, organization |-> None, year |-> None, priority |-> None]

\* priority: Optional[Priority]
ValidPriority(d) ==
    "priority" \in DOMAIN d => (d.priority = None \/ d.priority \in Priority)

\* a list of objects of a model with a priority field
ValidItems(items) == \A i \in 1..Len(items) : ValidPriority(items[i])

\* List[CertificationItem]: every entry is an object
ValidCertifications(items) ==
    \A i \in 1..Len(items) : items[i].kind = "dict" /\ ValidPriority(items[i].v)

\* Resume.model_validate(data) does not raise ValidationError
ValidResume(data) ==
    /\ "experience" \in DOMAIN data => ValidItems(data.experience)
    /\ "education" \in DOMAIN data => ValidItems(data.education)
    /\ "projects" \in DOMAIN data => ValidItems(data.projects)
    /\ "volunteer" \in DOMAIN data => ValidItems(data.volunteer)
    /\ "certifications" \in DOMAIN data => ValidCertifications(data.certifications)

\* the fields of a model: those given, the defaults for the others; keys the
\* model does not have are ignored
FillDefaults(defaults, d) ==
    [k \in DOMAIN defaults |-> IF k \in DOMAIN d THEN d[k] ELSE defaults[k]]

FillEach(defaults, items) == [i \in 1..Len(items) |-> FillDefaults(defaults, items[i])]

ModelDumpOf(d) ==
    [d EXCEPT !.contact = FillDefaults(EmptyContact, d.contact),
              !.experience = FillEach(ExperienceItemDefaults, d.experience),
              !.education = FillEach(EducationItemDefaults, d.education),
              !.projects = FillEach(ProjectItemDefaults, d.projects),
              !.volunteer = FillEach(ProjectItemDefaults, d.volunteer),
              !.certifications =
                  [i \in 1..Len(d.certifications) |->
                      JsonObject(FillDefaults(CertificationItemDefaults,
                                              d.certifications[i].v))]]

\* Resume.model_validate(data).model_dump() of a valid data
ModelDump(data) == ModelDumpOf(FillDefaults(EmptyResume, data))

\* ------------------------------------------------------------------------
\* tailor.py
\* ------------------------------------------------------------------------
\* s[:n]
Prefix(s, n) == IF Len(s) <= n THEN s ELSE SubSeq(s, 1, n)

\* item["bullets"] = item["bullets"][:n] for every item
CapBullets(items, n) ==
    [i \in 1..Len(items) |-> [items[i] EXCEPT !.bullets = Prefix(@, n)]]

\* the truncations of _shrink_for_prompt
Shrunk(d) ==
    [d EXCEPT !.experience = CapBullets(@, 6),
              !.projects = CapBullets(@, 4),
              !.skills = Prefix(@, 40),
              !.certifications = Prefix(@, 10),
              !.languages = Prefix(@, 10),
              !.volunteer = CapBullets(@, 3),
              !.summary = IF Falsy(@) THEN @ ELSE Prefix(@, 1200)]

\* _shrink_for_prompt truncating its argument itself
ShrinkForPrompt_InPlace(data) == [d |-> Shrunk(data), data |-> Shrunk(data)]

\* _shrink_for_prompt(data): d is the value returned, data the argument as
\* the call leaves it.  d is built on a deep copy, so data stays as it was.
ShrinkForPrompt(data) == [d |-> Shrunk(data), data |-> data]

\* a reply of the model: a text that is the JSON of data, or not JSON at all
Reply(isJson, data) == [json |-> isJson, data |-> data]

\* "Sure! Here is the resume"
ReplyProse == Reply(FALSE, [summary |-> <<"S","u","r","e">>])

\* {"experience": [{"title": "Dev", "priority": "urgent"}]}
ReplyBadPriority ==
    Reply(TRUE, [experience |-> << [title |-> <<"D","e","v">>, priority |-> <<"u","r","g","e","n","t">>] >>])

\* {"summary": "Fit", "experience": [{"title": "Dev", "start_date": "2019"}]}
ReplyShort ==
    Reply(TRUE, [summary |-> <<"F","i","t">>,
                 experience |-> << [title |-> <<"D","e","v">>, start_date |-> <<"2","0","1","9">>] >>])

\* {"experience": [{"title": "Dev", "company": "Acme", "start_date": "2019",
\*   "end_date": "2021", "priority": "high"}, {"company": "Solo", "end_date": ""}],
\*  "certifications": [{"name": "PMP"}]}
ReplyFull ==
    Reply(TRUE, [experience |-> << [title |-> <<"D","e","v">>, company |-> <<"A","c","m","e">>,
                                    start_date |-> <<"2","0","1","9">>, end_date |-> <<"2","0","2","1">>,
                                    priority |-> <<"h","i","g","h">>],
                                   [company |-> <<"S","o","l","o">>, end_date |-> <<>>] >>,
                 certifications |-> << JsonObject([name |-> <<"P","M","P">>]) >>])

ReplyPool == {ReplyProse, ReplyBadPriority, ReplyShort, ReplyFull}

\* json.loads(s)
JsonLoads(s) == [raised |-> ~s.json, v |-> s.data]

\* _validate_or_none(s) is not None
Validates(s) == ~JsonLoads(s).raised /\ ValidResume(JsonLoads(s).v)

\* _validate_or_none(s)
ValidateOrNone(s) == IF Validates(s) THEN ModelDump(JsonLoads(s).v) ELSE None

\* base and compact from the validated record
LoadTo(shrunk) ==
    /\ base' = shrunk.data
    /\ compact' = shrunk.d
    /\ Goto("call1")

\* parsed = json.load(...); base = Resume.model_validate(parsed).model_dump();
\* compact = _shrink_for_prompt(base).  model_validate is outside any try: a
\* ValidationError leaves the call.
TailorLoad ==
    /\ pc = "done"
    /\ IF ValidResume(ParsedJson(result))
       THEN LoadTo(ShrinkForPrompt(ModelDump(ParsedJson(result))))
       ELSE Goto("invalid") /\ UNCHANGED <<base, compact>>
    /\ UNCHANGED <<raw, text, sections, r, project_skills, cert_lines, cert_i, cert_out,
                   result, replies, tailored, ctx>>

\* raw = _call_model(prompt); result = _validate_or_none(raw); return result
\* if it is not None
FirstCall ==
    /\ pc = "call1"
    /\ \E s \in ReplyPool :
          /\ replies' = Append(replies, s)
          /\ IF Validates(s)
             THEN tailored' = ValidateOrNone(s) /\ Goto("tailored")
             ELSE Goto("call2") /\ UNCHANGED tailored
    /\ UNCHANGED <<raw, text, sections, r, project_skills, cert_lines, cert_i, cert_out,
                   result, base, compact, ctx>>

\* raw2 = _call_model(prompt + correction); result2 = _validate_or_none(raw2);
\* return result2 if it is not None
SecondCall ==
    /\ pc = "call2"
    /\ \E s \in ReplyPool :
          /\ replies' = Append(replies, s)
          /\ IF Validates(s)
             THEN tailored' = ValidateOrNone(s) /\ Goto("tailored")
             ELSE Goto("fallback") /\ UNCHANGED tailored
    /\ UNCHANGED <<raw, text, sections, r, project_skills, cert_lines, cert_i, cert_out,
                   result, base, compact, ctx>>

\* return base
FallBack ==
    /\ pc = "fallback"
    /\ tailored' = base
    /\ Goto("tailored")
    /\ UNCHANGED <<raw, text, sections, r, project_skills, cert_lines, cert_i, cert_out,
                   result, base, compact, replies, ctx>>

\* ------------------------------------------------------------------------
\* template_context.py, exporter.py
\* ------------------------------------------------------------------------
\* sep.join([p for p in parts if p])
JoinNonempty(parts, sep) == Join(SelectSeq(parts, LAMBDA p : ~Falsy(p)), sep)

\* e.get("end_date") with no "Present" put in its place
OrPresent_Raw(end_date) == end_date

\* e.get("end_date") or "Present"
OrPresent(end_date) == IF Falsy(end_date) THEN PRESENT ELSE end_date

\* dates = " – ".join([p for p in [start_date, end_date or "Present"] if p])
ExperienceDates(e) ==
    JoinNonempty(<<e.start_date, OrPresent(e.end_date)>>, <<" ", ENDASH, " ">>)

\* _fmt_experience_item
FmtExperienceItem(e) ==
    [header_company |-> JoinNonempty(<<e.company, e.location>>, <<" ", EMDASH, " ">>),
     header_title_dates |->
         JoinNonempty(<<e.title, ExperienceDates(e)>>, <<" ", " ", " ", " ", " ">>),
     bullets |-> IF Falsy(e.bullets) THEN <<>> ELSE e.bullets,
     priority |-> e.priority]

\* build_template_context: the experience part of the context
BuildTemplateContext(resume) ==
    [has_experience |-> Len(resume.experience) > 0,
     experience_items |->
         [i \in 1..Len(resume.experience) |-> FmtExperienceItem(resume.experience[i])]]

\* export_docx: data = json.load(tailored file); ctx = build_template_context(data)
Export ==
    /\ pc = "tailored"
    /\ ctx' = BuildTemplateContext(tailored)
    /\ Goto("exported")
    /\ UNCHANGED <<raw, text, sections, r, project_skills, cert_lines, cert_i, cert_out,
                   result, base, compact, replies, tailored>>

\* ------------------------------------------------------------------------
\* Specification of the pipeline: parse, tailor, export
\* ------------------------------------------------------------------------
\* Tutor\nOrg\n- a\n- b\n- c\n- d
ChunkTutor ==
    <<"T","u","t","o","r",NL,"O","r","g",NL,"-"," ","a",NL,"-"," ","b",NL,"-"," ","c",NL,"-"," ","d">>

PipelineDocuments ==
    ScenarioDocs \cup
    {ChunkDoc(EXPERIENCE, <<ChunkLoc, ChunkSolo>>), ChunkDoc(EXPERIENCE, <<ChunkLed>>),
     ChunkDoc(VOLUNTEER, <<ChunkTutor>>)}

PipelineNext ==
    \/ Next
    \/ TailorLoad
    \/ FirstCall
    \/ SecondCall
    \/ FallBack
    \/ Export

\* a step of the pipeline can be taken until the export is done or a command
\* has raised
PipelineEnabled == pc \notin {"error", "invalid", "exported"}

\* the three commands run one after the other, and each runs on
PipelineSpec ==
    /\ InitOn(PipelineDocuments)
    /\ [][PipelineNext]_vars
    /\ ([]<>(~PipelineEnabled) \/ []<><<PipelineNext>>_vars)

\* ------------------------------------------------------------------------
\* Properties
\* ------------------------------------------------------------------------
\* A line read as the spec reads it: upper-cased, trimmed, one trailing colon
\* dropped.  It names a section iff the result is in the alias table.
LineKey(line) ==
    LET u == Strip(StrUpper(line))
    IN  IF u # <<>> /\ u[Len(u)] = ":" THEN Strip(Sub(u, 1, Len(u) - 1)) ELSE u

IsAliasLine(line) == LineKey(line) \in AllAliases

\* indices of the lines of a text that name a section
AliasLineIdx(lines) == SelectSeq(Indices(1, Len(lines)), LAMBDA i : IsAliasLine(lines[i]))

NoAliasLine(t) == AliasLineIdx(SplitLines(t)) = <<>>

\* the lines strictly between the j-th header line and the next one (or the end)
Between(lines, H, j) ==
    Sub(lines, H[j] + 1, (IF j < Len(H) THEN H[j + 1] ELSE Len(lines) + 1) - 1)

HasNonBlank(ls) == \E i \in 1..Len(ls) : Strip(ls[i]) # <<>>

\* lines without the blank lines at either end
TrimBlankLines(ls) == StripChars(ls, {<<>>})

\* the text before the first header line, all of it if there is none
PreambleOf(t) ==
    LET lines == SplitLines(t)
        H == AliasLineIdx(lines)
    IN  IF H = <<>> THEN t ELSE Join(Sub(lines, 1, H[1] - 1), <<NL>>)

FirstLineOf(t) == SplitLines(t)[1]

JaneDoe == <<"J","a","n","e"," ","D","o","e">>

\* C1: the first end-to-end scenario: the scenario text parses to the contact
\* name, email and phone of its first two lines and to exactly one experience
\* item with company "Acme Corp", location "Austin, TX", title "Engineer",
\* start "Jan 2022", end "Present" and the single bullet "Built service".
C1_Scenario1 ==
    (pc = "done" /\ raw = DocScenario1) =>
        /\ result.contact.name = JaneDoe
        /\ result.contact.email = <<"j","a","n","e","@","x",".","c","o","m">>
        /\ result.contact.phone = <<"(","5","1","2",")"," ","5","5","5","-","0","1","0","0">>
        /\ Len(result.experience) = 1
        /\ result.experience[1].company = <<"A","c","m","e"," ","C","o","r","p">>
        /\ result.experience[1].location = <<"A","u","s","t","i","n",","," ","T","X">>
        /\ result.experience[1].title = <<"E","n","g","i","n","e","e","r">>
        /\ result.experience[1].start_date = <<"J","a","n"," ","2","0","2","2">>
        /\ result.experience[1].end_date = PRESENT
        /\ result.experience[1].bullets = << <<"B","u","i","l","t"," ","s","e","r","v","i","c","e">> >>

\* a section that is not in the dict leaves its field at the default
DefaultsKept ==
    /\ DOMAIN result = DOMAIN EmptyResume
    /\ ~DictHas(sections, SUMMARY) => result.summary = None
    /\ ~DictHas(sections, EXPERIENCE) => result.experience = <<>>
    /\ ~DictHas(sections, EDUCATION) => result.education = <<>>
    /\ ~DictHas(sections, PROJECTS) => result.projects = <<>>
    /\ (~DictHas(sections, TECHNICAL_SKILLS) /\ ~DictHas(sections, PROJECTS)) => result.skills = <<>>
    /\ ~DictHas(sections, CERTIFICATIONS_LICENSES) => result.certifications = <<>>
    /\ ~DictHas(sections, LANGUAGES) => result.languages = <<>>
    /\ ~DictHas(sections, VOLUNTEER_EXPERIENCE) => result.volunteer = <<>>

\* C2: for every input text the parse never reaches an error state, runs to
\* completion (every loop terminates) and returns a record in which a section
\* that yielded nothing is at its empty default.
C2_BestEffort ==
    /\ [](pc # "error")
    /\ <>(pc = "done")
    /\ [](pc = "done" => DefaultsKept)

\* a call that returned on a skills section whose only line ends in its
\* colon: the extractor ran, found nothing, and the list is the default
C2_Witness ==
    /\ pc = "done"
    /\ raw = ShapeDoc(TECHNICAL_SKILLS, << <<"G","o",":">> >>)
    /\ DictGet(sections, TECHNICAL_SKILLS) = <<"G","o",":">>
    /\ result.skills = <<>>

C4_AliasLinesAreBoundaries ==
    pc = "scanned" =>
        IF IsAliasLine(raw)
        THEN sections = << <<CanonOfAlias(LineKey(raw)), BodyLine>> >>
        ELSE sections = <<>>

\* "education:" scanned as the boundary of EDUCATION
C4_Witness ==
    /\ pc = "scanned"
    /\ raw = StrLower(EDUCATION) \o <<":">>
    /\ sections = << <<EDUCATION, BodyLine>> >>

\* C5: three header lines of distinct canonical names, each followed by a
\* non-blank line: the dict has exactly these names in this order, each body
\* is the lines strictly between its header and the next one, trimmed, and no
\* body is empty.
ThreeSections(lines, H) ==
    /\ Len(H) = 3
    /\ \A i, j \in 1..3 : i # j => LineKey(lines[H[i]]) # LineKey(lines[H[j]])
    /\ \A i, j \in 1..3 :
          i # j => CanonOfAlias(LineKey(lines[H[i]])) # CanonOfAlias(LineKey(lines[H[j]]))
    /\ \A j \in 1..3 : HasNonBlank(Between(lines, H, j))

C5_SegmentationComplete ==
    pc = "contact" =>
        LET lines == SplitLines(text)
            H == AliasLineIdx(lines)
        IN  ThreeSections(lines, H) =>
              /\ DictKeys(sections) = [j \in 1..3 |-> CanonOfAlias(LineKey(lines[H[j]]))]
              /\ \A j \in 1..3 :
                    /\ SplitLines(sections[j][2]) = TrimBlankLines(Between(lines, H, j))
                    /\ Strip(sections[j][2]) # <<>>
                    /\ Strip(sections[j][2]) = sections[j][2]

\* the text with the headers Summary, education: and SKILLS, segmented
C5_Witness ==
    /\ pc = "contact"
    /\ raw = DocThreeA
    /\ Len(sections) = 3
    /\ ThreeSections(SplitLines(text), AliasLineIdx(SplitLines(text)))

\* C6: normalizing a normalized text changes nothing, in both modes.
C6_NormalizationIdempotent ==
    pc \in {"collapsed_twice", "preserved_twice"} => result = text

\* a text with a run of three line breaks, normalized twice
C6_Witness ==
    /\ pc = "preserved_twice"
    /\ raw = <<"a", NL, NL, NL, "a">>
    /\ text = <<"a", NL, NL, "a">>

\* the tokens of a skills body in line order, before any dedupe
SectionTokens(body) ==
    LET lines == SelectSeq(SplitLines(body), LAMBDA l : Strip(l) # <<>>)
    IN  Flatten([i \in 1..Len(lines) |-> SkillTokens(SkillRhs(lines[i]).v)])

\* the candidates of the flat skills list: section tokens, then project skills
SkillCandidates ==
    (IF DictHas(sections, TECHNICAL_SKILLS)
     THEN SectionTokens(DictGet(sections, TECHNICAL_SKILLS)) ELSE <<>>)
    \o ProjectSkillsOf(result.projects)

\* index in all of the first entry that equals x when lower-cased
FirstIndexOf(all, x) ==
    CHOOSE i \in 1..Len(all) :
        /\ StrLower(all[i]) = StrLower(x)
        /\ \A j \in 1..(i - 1) : StrLower(all[j]) # StrLower(x)

\* out is the case-insensitive first-occurrence dedupe of all
IsFirstOccurrenceDedupe(out, all) ==
    /\ \A i, j \in 1..Len(out) : i # j => StrLower(out[i]) # StrLower(out[j])
    /\ \A i \in 1..Len(all) : \E k \in 1..Len(out) : StrLower(out[k]) = StrLower(all[i])
    /\ \A k \in 1..Len(out) : \E i \in 1..Len(all) : all[i] = out[k]
    /\ \A k \in 1..Len(out) : all[FirstIndexOf(all, out[k])] = out[k]
    /\ \A k, l \in 1..Len(out) : k < l => FirstIndexOf(all, out[k]) < FirstIndexOf(all, out[l])

Scenario2Body ==
    <<"L","a","n","g","u","a","g","e","s",":"," ","P","y","t","h","o","n",","," ","G","o",
      ","," ","p","y","t","h","o","n",NL,"T","o","o","l","s",":"," ","G","i","t">>

\* C7: the flat skills list is the case-insensitive first-occurrence dedupe of
\* the skills section's tokens followed by the project items' skills: no two
\* entries equal when lower-cased, first casing kept, order of first
\* occurrences kept; the body "Languages: Python, Go, python / Tools: Git"
\* alone yields Python, Go, Git.
C7_SkillsDeduped ==
    pc = "done" =>
        /\ IsFirstOccurrenceDedupe(result.skills, SkillCandidates)
        /\ (/\ DictHas(sections, TECHNICAL_SKILLS)
            /\ DictGet(sections, TECHNICAL_SKILLS) = Scenario2Body
            /\ result.projects = <<>>)
           => result.skills = << <<"P","y","t","h","o","n">>, <<"G","o">>, <<"G","i","t">> >>

\* a skills section and a project whose skills repeat it in another casing
C7_Witness ==
    /\ pc = "done"
    /\ raw = Compose(PreFull, <<SecSkills, SecProjects>>)
    /\ SkillCandidates = << <<"G","o">>, <<"R","u","s","t">>, <<"g","o">>, <<"G","i","t">>,
                            <<"G","o">>, <<"r","u","s","t">> >>
    /\ result.skills = << <<"G","o">>, <<"R","u","s","t">>, <<"G","i","t">> >>

ContactValueFields == {"email", "phone", "location", "website", "linkedin", "github"}

\* C8: when the text has a header line, every contact value is matched inside
\* the text before the first header line; the text from that line on
\* contributes no contact value.
C8_ContactFromPreamble ==
    (pc = "done" /\ ~NoAliasLine(text)) =>
        \A f \in ContactValueFields :
            result.contact[f] # None =>
                result.contact[f] = ContactOfTop(PreambleOf(text))[f]

\* C9: for a non-empty normalized text whose first line is no header line,
\* contact.name is that first line.
C9_NameIsFirstLine ==
    (pc = "done" /\ text # <<>> /\ ~IsAliasLine(FirstLineOf(text))) =>
        result.contact.name = FirstLineOf(text)

\* the bodies (trimmed, non-empty) that follow the header lines spelled w
BodiesUnder(t, w) ==
    LET lines == SplitLines(t)
        H == AliasLineIdx(lines)
    IN  {Join(TrimBlankLines(Between(lines, H, j)), <<NL>>) :
            j \in {k \in 1..Len(H) : LineKey(lines[H[k]]) = w
                                      /\ HasNonBlank(Between(lines, H, k))}}

\* C10: when the text has a SUMMARY section and an OBJECTIVE section, both
\* with a non-empty body, in either order, the summary is the body of the
\* SUMMARY section.
C10_SummaryPreferred ==
    (pc = "done" /\ BodiesUnder(text, SUMMARY) # {} /\ BodiesUnder(text, OBJECTIVE) # {}) =>
        result.summary \in BodiesUnder(text, SUMMARY)

\* a line is blank: nothing but whitespace
IsBlank(l) == Strip(l) = <<>>

\* the chunks of a section body, each as its lines: the maximal runs of
\* consecutive non-blank lines, in body order
RunStarts(lines) ==
    SelectSeq(Indices(1, Len(lines)),
        LAMBDA i : ~IsBlank(lines[i]) /\ (i = 1 \/ IsBlank(lines[i - 1])))

RunEnd(lines, i) ==
    CHOOSE j \in i..Len(lines) :
        /\ \A k \in i..j : ~IsBlank(lines[k])
        /\ (j = Len(lines) \/ IsBlank(lines[j + 1]))

ChunkGroups(body) ==
    [g \in 1..Len(RunStarts(SplitLines(body))) |->
        Sub(SplitLines(body), RunStarts(SplitLines(body))[g],
            RunEnd(SplitLines(body), RunStarts(SplitLines(body))[g]))]

\* a is b with some entries left out, the others in the order of b
RECURSIVE IsSubseq(_, _)
IsSubseq(a, b) ==
    IF a = <<>> THEN TRUE
    ELSE IF b = <<>> THEN FALSE
    ELSE IF Head(a) = Head(b) THEN IsSubseq(Tail(a), Tail(b))
    ELSE IsSubseq(a, Tail(b))

\* a chunk line as a bullet: trimmed, its bullet mark removed
Unmarked(l) == ReSub(BulletMarkRe, <<>>, Strip(l))

\* the lines of a chunk after its first line, as bullets
LaterLinesAsBullets(group) == [k \in 1..(Len(group) - 1) |-> Unmarked(group[k + 1])]

\* items has one item per chunk of the body, in chunk order: item i is what
\* the extractor makes of chunk i alone, and its bullets are lines of chunk i
\* after the first, in line order
InChunkOrder(items, groups, OfChunk(_)) ==
    /\ Len(items) = Len(groups)
    /\ \A i \in 1..Len(groups) :
          /\ items[i] = OfChunk(Join(groups[i], <<NL>>)).item
          /\ IsSubseq(items[i].bullets, LaterLinesAsBullets(groups[i]))

\* the body of the first section of keys that the dict has, "" if none
BodyOfFirst(d, keys) ==
    IF FirstKey(d, keys) = None THEN <<>> ELSE DictGet(d, FirstKey(d, keys))

LedBullets == << <<"L","e","d"," ","X">>, <<"B","u","i","l","t"," ","Y">>, <<"S","h","i","p","p","e","d"," ","Z">> >>

\* C12: extraction never reorders: in the experience, education, projects
\* and volunteer sections the i-th item comes from the i-th chunk of the
\* section body, and the bullets of an item are lines of its chunk after the
\* first line, in source order; the chunk with the bullets Led X, Built Y,
\* Shipped Z yields exactly these bullets in this order.
C12_ExtractionInOrder ==
    pc = "done" =>
        /\ InChunkOrder(result.experience,
                        ChunkGroups(BodyOfFirst(sections, ExperienceKeys)), ExperienceOfChunk)
        /\ InChunkOrder(result.education,
                        ChunkGroups(BodyOfFirst(sections, <<EDUCATION>>)), EducationOfChunk)
        /\ InChunkOrder(result.projects,
                        ChunkGroups(BodyOfFirst(sections, <<PROJECTS>>)), ProjectOfChunk)
        /\ InChunkOrder(result.volunteer,
                        ChunkGroups(BodyOfFirst(sections, VolunteerKeys)), VolunteerOfChunk)
        /\ (BodyOfFirst(sections, ExperienceKeys) = ChunkLed =>
                result.experience[1].bullets = LedBullets)

\* an experience section of two chunks: the three bullets, then "Solo"
C12_Witness ==
    /\ pc = "done"
    /\ raw = ChunkDoc(EXPERIENCE, <<ChunkLed, ChunkSolo>>)
    /\ Len(result.experience) = 2
    /\ result.experience[1].bullets = LedBullets
    /\ result.experience[2].company = ChunkSolo

\* the characters of a column gap; the whitespace of str.strip()
GapCh == {" ", TAB}

\* index after the run of gap characters that starts at i
GapEnd(s, i) == FirstMiss(Cls(GapCh), s, i, Len(s), Len(s) + 1)

\* the column delimiters of a text, in text order: the maximal runs of spaces
\* and tabs that hold a tab or at least two characters and stand between two
\* non-whitespace characters of one line
InnerGaps(s) ==
    LET starts == SelectSeq(Indices(1, Len(s)),
                      LAMBDA i : /\ s[i] \in GapCh
                                 /\ i > 1
                                 /\ s[i - 1] \notin SpaceCh
                                 /\ GapEnd(s, i) <= Len(s)
                                 /\ s[GapEnd(s, i)] \notin SpaceCh
                                 /\ (GapEnd(s, i) - i >= 2
                                     \/ \E k \in i..(GapEnd(s, i) - 1) : s[k] = TAB))
    IN  [g \in 1..Len(starts) |-> Sub(s, starts[g], GapEnd(s, starts[g]) - 1)]

\* C13: column-preserving normalization keeps every intra-line column
\* delimiter: each tab and each run of two or more spaces between two
\* non-whitespace characters of a line is in the normalized text, unchanged:
\* the delimiters of the raw text are delimiters of the normalized text, in
\* the same order.
C13_ColumnDelimitersKept ==
    pc = "preserved" => IsSubseq(InnerGaps(raw), InnerGaps(text))

\* the canonical name of the j-th header line; the body that follows it
CanonAt(lines, H, j) == CanonOfAlias(LineKey(lines[H[j]]))
BodyAfter(lines, H, j) == Join(TrimBlankLines(Between(lines, H, j)), <<NL>>)

\* the header lines, by position in H, that introduce the canonical name K
OccurrencesOf(lines, H, K) ==
    SelectSeq(Indices(1, Len(H)), LAMBDA j : CanonAt(lines, H, j) = K)

\* those of them that a non-empty body follows
FilledOccurrencesOf(lines, H, K) ==
    SelectSeq(OccurrencesOf(lines, H, K), LAMBDA j : BodyAfter(lines, H, j) # <<>>)

\* the canonical names that more than one header line introduces
RepeatedNames(lines, H) ==
    {K \in {CanonAt(lines, H, j) : j \in 1..Len(H)} : Len(OccurrencesOf(lines, H, K)) >= 2}

LastOf(seq) == seq[Len(seq)]

\* C14 as stated: a canonical name that several header lines introduce is
\* mapped to the body that follows its last occurrence.
C14_LastOccurrenceWins ==
    pc = "contact" =>
        \A K \in RepeatedNames(SplitLines(text), AliasLineIdx(SplitLines(text))) :
            /\ DictHas(sections, K)
            /\ DictGet(sections, K) =
                   BodyAfter(SplitLines(text), AliasLineIdx(SplitLines(text)),
                             LastOf(OccurrencesOf(SplitLines(text),
                                                  AliasLineIdx(SplitLines(text)), K)))

\* the body a repeated name is mapped to: that of its last occurrence with a
\* non-empty body; the name is absent when every occurrence has an empty body
LastFilledWins(lines, H, K) ==
    IF FilledOccurrencesOf(lines, H, K) = <<>> THEN ~DictHas(sections, K)
    ELSE /\ DictHas(sections, K)
         /\ DictGet(sections, K) = BodyAfter(lines, H, LastOf(FilledOccurrencesOf(lines, H, K)))

\* C14, amended: a canonical name that several header lines introduce, by
\* the same alias or by different ones, is mapped to the body that follows
\* its last occurrence with a non-empty body; earlier bodies are not kept or
\* merged, and an occurrence with an empty body replaces nothing.
C14_LastFilledOccurrenceWins ==
    pc = "contact" =>
        \A K \in RepeatedNames(SplitLines(text), AliasLineIdx(SplitLines(text))) :
            LastFilledWins(SplitLines(text), AliasLineIdx(SplitLines(text)), K)

\* SUMMARY then OBJECTIVE, two aliases of one name: the later body is kept
C14_Witness ==
    /\ pc = "contact"
    /\ raw = Compose(<<>>, <<SecSummary, SecObjective>>)
    /\ Len(OccurrencesOf(SplitLines(text), AliasLineIdx(SplitLines(text)), SUMMARY)) = 2
    /\ sections = << <<SUMMARY, <<"G","e","t"," ","j","o","b">>>> >>

\* line 1 of a chunk splits on a wide gap into exactly two non-empty parts
TwoColumns(line) ==
    /\ Len(WideGapSplit(line)) = 2
    /\ Strip(WideGapSplit(line)[1]) # <<>>
    /\ Strip(WideGapSplit(line)[2]) # <<>>

\* every item of a two-column chunk has part 1 in its entity field and part 2
\* as its location
ColumnsRead(items, groups, entity) ==
    /\ Len(items) = Len(groups)
    /\ \A i \in 1..Len(groups) :
          TwoColumns(groups[i][1]) =>
              /\ items[i][entity] = Strip(WideGapSplit(groups[i][1])[1])
              /\ items[i].location = Strip(WideGapSplit(groups[i][1])[2])

\* C15: in the experience, education, project and volunteer extractors, a
\* first line that splits on a wide gap into exactly two non-empty parts gives
\* the entity (company, school, name) from part 1 and the location from part
\* 2, whatever the inline location pattern would match.
C15_WideGapColumns ==
    pc = "done" =>
        /\ ColumnsRead(result.experience,
                       ChunkGroups(BodyOfFirst(sections, ExperienceKeys)), "company")
        /\ ColumnsRead(result.education,
                       ChunkGroups(BodyOfFirst(sections, <<EDUCATION>>)), "school")
        /\ ColumnsRead(result.projects,
                       ChunkGroups(BodyOfFirst(sections, <<PROJECTS>>)), "name")
        /\ ColumnsRead(result.volunteer,
                       ChunkGroups(BodyOfFirst(sections, VolunteerKeys)), "name")

\* the number of the GPA token of a line, None if the line has none
GpaToken(l) == GpaOf(TRUE, l, ReSearch(GpaRe, l))

\* the bullet lines of a chunk (the lines after its two header lines)
BulletLines(group) == [k \in 1..(Len(group) - 2) |-> Unmarked(group[k + 2])]

\* the bullet lines that hold a GPA token
GpaBullets(group) == SelectSeq(BulletLines(group), LAMBDA b : GpaToken(b) # None)

\* every item takes its gpa from line 2 or from a bullet of its chunk, and a
\* bullet the gpa was taken from is the only bullet left out
GpaRead(items, groups) ==
    /\ Len(items) = Len(groups)
    /\ \A i \in 1..Len(groups) :
          IF Len(groups[i]) >= 2 /\ GpaToken(Strip(groups[i][2])) # None
          THEN items[i].gpa = GpaToken(Strip(groups[i][2]))
          ELSE GpaBullets(groups[i]) # <<>> =>
                  /\ items[i].gpa = GpaToken(GpaBullets(groups[i])[1])
                  /\ items[i].bullets =
                        SelectSeq(BulletLines(groups[i]),
                                  LAMBDA b : b # GpaBullets(groups[i])[1])

\* C16: for every education chunk, a GPA token on line 2 or on a bullet line
\* sets the item's gpa to its number, and a bullet it was found on is removed
\* from the bullets while all other bullets are kept in order.
C16_GpaFromLineOrBullet ==
    pc = "done" =>
        GpaRead(result.education, ChunkGroups(BodyOfFirst(sections, <<EDUCATION>>)))

\* line 1 of a chunk has the compact form "Name — DateOrYear"
CompactForm(line) ==
    /\ HasChar(line, EMDASH)
    /\ Len(EmDashSplit(line)) = 2
    /\ Strip(EmDashSplit(line)[1]) # <<>>
    /\ Strip(EmDashSplit(line)[2]) # <<>>

\* every item of a compact chunk is named by the part before the em-dash and
\* has every later line of the chunk among its bullets
CompactRead(items, groups) ==
    /\ Len(items) = Len(groups)
    /\ \A i \in 1..Len(groups) :
          CompactForm(groups[i][1]) =>
              /\ items[i].name = Strip(EmDashSplit(groups[i][1])[1])
              /\ items[i].bullets = LaterLinesAsBullets(groups[i])

\* C17: for project and for volunteer chunks whose line 1 has the compact
\* form "Name — DateOrYear", the item's name is the part before the em-dash,
\* there is no second header line, and every line after line 1 (line 2
\* included) is in the item's bullets.
C17_CompactFormBothSections ==
    pc = "done" =>
        /\ CompactRead(result.projects, ChunkGroups(BodyOfFirst(sections, <<PROJECTS>>)))
        /\ CompactRead(result.volunteer, ChunkGroups(BodyOfFirst(sections, VolunteerKeys)))

\* the entries the scan yields when a next line is consumed unless the Header
\* Canonicalizer accepts it
RECURSIVE CertsByCanonicalHeader(_)
CertsByCanonicalHeader(lines) ==
    IF lines = <<>> THEN <<>>
    ELSE IF Len(lines) >= 2 /\ HeaderOfLine(lines[2]) = None
    THEN <<EmDashJoin(Strip(lines[1]), Strip(lines[2]))>>
             \o CertsByCanonicalHeader(Tail(Tail(lines)))
    ELSE <<Strip(lines[1])>> \o CertsByCanonicalHeader(Tail(lines))

\* C18: the certifications extractor pairs each candidate line with its next
\* line as "name — organization" unless there is no next line or the next
\* line is one the Header Canonicalizer accepts; a body of n non-blank lines,
\* none of them a section header, yields ceil(n/2) entries.
C18_CertificationsPairLines ==
    (pc = "done" /\ FirstKey(sections, CertificationKeys) # None) =>
        /\ result.certifications =
              CertsByCanonicalHeader(CertLines(BodyOfFirst(sections, CertificationKeys)))
        /\ ((\A l \in Range(CertLines(BodyOfFirst(sections, CertificationKeys))) :
                  HeaderOfLine(l) = None)
              => Len(result.certifications) =
                     (Len(CertLines(BodyOfFirst(sections, CertificationKeys))) + 1) \div 2)

\* C11: in the rewrite step a schema-validation failure never blocks the
\* pipeline: whether the record read from the parse output or a reply of the
\* model fails validation, the call returns a record and never raises; this
\* includes the records the parser makes of a document with a certifications
\* section.
C11_ValidationNeverBlocks == pc # "invalid"

\* the record the retry protocol returns: the first reply that validates, the
\* input record if none does
FirstValid(rs, input) ==
    IF Validates(rs[1]) THEN ModelDump(rs[1].data)
    ELSE IF Len(rs) >= 2 /\ Validates(rs[2]) THEN ModelDump(rs[2].data)
    ELSE input

\* the state of a call whose input record has validated
RetryProtocol ==
    pc \in {"call1", "call2", "fallback", "tailored", "exported"} =>
        /\ Len(replies) <= 2
        /\ base = ModelDump(ParsedJson(result))
        /\ (pc = "call1" => replies = <<>>)
        /\ (pc = "call2" => Len(replies) = 1)
        /\ (pc = "fallback" => Len(replies) = 2 /\ ~Validates(replies[2]))
        /\ (Len(replies) = 2 => ~Validates(replies[1]))
        /\ (pc \in {"tailored", "exported"} =>
                /\ replies # <<>>
                /\ (Len(replies) = 1 => Validates(replies[1]))
                /\ tailored = FirstValid(replies, ModelDump(ParsedJson(result))))

\* C19: once the input record has validated, the rewrite step calls the model
\* at most twice, the second time only if the first reply fails JSON parsing
\* or validation; it returns the first reply that validates, and if neither
\* does, the validated input record in full, which building the truncated
\* copy has left unchanged; it always ends after the first or second reply.
C19_BoundedRetry ==
    /\ []RetryProtocol
    /\ ((pc = "call1") ~> (pc = "tailored"))

\* two replies that do not validate, and the input record returned with the
\* four bullets of which the truncated copy has three
C19_Witness ==
    /\ pc = "tailored"
    /\ raw = ChunkDoc(VOLUNTEER, <<ChunkTutor>>)
    /\ replies = <<ReplyProse, ReplyBadPriority>>
    /\ tailored = base
    /\ Len(tailored.volunteer[1].bullets) = 4
    /\ Len(compact.volunteer[1].bullets) = 3

\* s ends with t
EndsWith(s, t) == Len(s) >= Len(t) /\ Sub(s, Len(s) - Len(t) + 1, Len(s)) = t

\* the date string of an item whose end date is unset
OpenEndedDates(e) ==
    IF Falsy(e.start_date) THEN PRESENT ELSE e.start_date \o <<" ", ENDASH, " ">> \o PRESENT

\* the title-and-dates line of an exported item
DatesRendered(e, line) ==
    /\ line # <<>>
    /\ IF Falsy(e.end_date)
       THEN /\ EndsWith(line, PRESENT)
            /\ line = JoinNonempty(<<e.title, OpenEndedDates(e)>>, <<" ", " ", " ", " ", " ">>)
       ELSE EndsWith(line, e.end_date)

\* C20: in the export context every experience item whose end_date is unset
\* is rendered with a date string ending in "Present": "<start> – Present"
\* when the start date is set, "Present" when neither date is set; the date
\* string is never empty.
C20_OpenEndedIsPresent ==
    pc = "exported" =>
        /\ Len(ctx.experience_items) = Len(tailored.experience)
        /\ \A i \in 1..Len(tailored.experience) :
              DatesRendered(tailored.experience[i],
                            ctx.experience_items[i].header_title_dates)

\* the parser's items of a single "May 2020" token and of no date, exported
C20_Witness ==
    /\ pc = "exported"
    /\ raw = ChunkDoc(EXPERIENCE, <<ChunkLoc, ChunkSolo>>)
    /\ tailored = base
    /\ tailored.experience[1].start_date = <<"M","a","y"," ","2","0","2","0">>
    /\ tailored.experience[1].end_date = None
    /\ ctx.experience_items[1].header_title_dates = <<"B","S"," ","G","P","A",":"," ","3",".","9"," "," "," "," "," ","M","a","y"," ","2","0","2","0"," ",ENDASH," ","P","r","e","s","e","n","t">>
    /\ ctx.experience_items[2].header_title_dates = PRESENT

====
